---- MODULE Spec2Model ----
(***************************************************************************)
(* Notification service: cascading delivery (NotificationService) and the *)
(* Redis-stream retry pipeline (retry_worker / process_retry_message).    *)
(*                                                                         *)
(* One step of the model is one suspension point of the code (an await on *)
(* the store, the queue or a provider) together with the local code that  *)
(* follows it up to the next await.  Every API request and every worker   *)
(* owns its own SQLAlchemy session (expire_on_commit=False): the session's *)
(* in-memory NotificationORM is `mem`, and a commit writes only the        *)
(* columns whose in-memory value differs from the value the session last  *)
(* loaded or committed.                                                    *)
(***************************************************************************)
EXTENDS Integers, Sequences, FiniteSets, TLC

\* ---------------------------------------------------------------- bounds
\* longest channel list a client supplies
MaxChannels == 2
\* cap on the number of entries of the retry stream
MaxStream == 3
\* largest value of the max_retry_attempts setting that is explored
MaxRetrySetting == 2
\* store failures, and queue failures, the environment may inject in one run
MaxFaults == 2
\* largest attempt number of an entry written to the stream from outside
MaxInjectedAttempt == 3
\* largest mantissa of a backoff base that is explored
MaxMantissa == 3

\* ------------------------------------------------------------- processes
\* API requests, each one call of create_and_send
Requests == {"r1"}
\* competing consumers of the retry stream
Workers == {"w1", "w2"}
Procs == Requests \cup Workers
\* the deployment with a single worker process
SoloWorkers == {"w1"}
SoloProcs == Requests \cup SoloWorkers

\* ------------------------------------------------------------ vocabulary
DeliveryChannel == {"EMAIL", "SMS", "TELEGRAM"}

ChannelValue(ch) ==
    CASE ch = "EMAIL" -> "email"
      [] ch = "SMS" -> "sms"
      [] ch = "TELEGRAM" -> "telegram"

\* DeliveryChannel(value): the member whose value is `v`
ChannelOfValue(v) == CHOOSE ch \in DeliveryChannel : ChannelValue(ch) = v

PENDING == "pending"
SENT == "sent"
FAILED == "failed"

\* SQL NULL / Python None
NULL == "NULL"
\* no row with that primary key
NoRow == [status |-> "absent", channel_used |-> NULL]

\* the registry built in NotificationService.__init__
Providers == DeliveryChannel

\* str(e) of the exception a provider raises
ErrorCause == "provider error"
\* str(e) of the exception a failed commit raises; the engine writes it to
\* no row
StoreErrorCause == "store error"

\* the credential settings, each one set or left at its default ""
SmtpCredentials == {"smtp_host", "smtp_user", "smtp_password"}
TwilioCredentials ==
    {"twilio_account_sid", "twilio_auth_token", "twilio_from_number"}
TelegramCredentials == {"telegram_bot_token"}
Credentials == SmtpCredentials \cup TwilioCredentials \cup TelegramCredentials

\* what the network does with the request of a configured provider:
\* "up" it goes through, "down" it raises, "any" either
AllAny == [ch \in DeliveryChannel |-> "any"]
AllDown == [ch \in DeliveryChannel |-> "down"]

\* a channel tag that no member of DeliveryChannel has
UnknownTag == "fax"

\* notification ids (uuid4 values), one per request
NIds == 1..Cardinality(Requests)
\* a uuid no notification was ever stored under
UnknownId == Cardinality(Requests) + 1
\* str(uuid) and the coercion of that string back to the key by the store
StrOfUuid(id) == <<"uuid", id>>
UuidOfStr(s) == s[2]

\* a float is m * 2^e with a small natural mantissa m; every float is
\* below 2^FloatMaxExp, and an operation whose result is not raises
\* OverflowError
FloatMaxExp == 1024
BitLength(m) == CHOOSE k \in 0..30 : m < 2^k /\ (k = 0 \/ m >= 2^(k - 1))
IsFloat(x) == BitLength(x.m) + x.e <= FloatMaxExp
\* x <= y
FloatLeq(x, y) ==
    IF x.e <= y.e
    THEN y.e - x.e >= 30 \/ x.m <= y.m * 2^(y.e - x.e)
    ELSE x.e - y.e < 30 /\ x.m * 2^(x.e - y.e) <= y.m
FloatZero == [m |-> 0, e |-> 0]
FloatOne == [m |-> 1, e |-> 0]
\* the default of retry_backoff_base, 2.0
DefaultBackoffBase == [m |-> 1, e |-> 1]

\* the exponents of the backoff bases that are explored: bases around 1,
\* around the square root of the largest float, and near the largest float
BaseExponents == {0, 1, 511, 512, 1022}
\* values of retry_backoff_base: floats >= 1.0 (Field(ge=1.0))
BackoffBases ==
    {x \in [m : 1..MaxMantissa, e : BaseExponents] : IsFloat(x)}

\* channel lists a client may supply (min_length=1, repeats allowed)
ChannelLists == UNION {[1..n -> DeliveryChannel] : n \in 1..MaxChannels}

VARIABLES
    max_retry_attempts, \* settings.max_retry_attempts
    notifications,      \* table notifications: id -> row (status, channel_used)
    attempts,           \* table notification_attempts, in autoincrement-id order
    stream,             \* the Redis stream: every entry ever XADDed, in order
    lastDelivered,      \* consumer group: last entry delivered with ">"
    pel,                \* consumer group: delivered and not yet acknowledged
    rounds,             \* history: delivery rounds started per notification
    pc,                 \* where each request / worker stands
    nid,                \* id of the notification a process works on
    chans,              \* its channel list
    att,                \* retry attempt number (0: the initial round)
    idx,                \* position of the for-loop in the channel list
    mem,                \* the session's in-memory NotificationORM
    msg,                \* stream entry the worker is processing
    outcome,            \* did the last provider.send return normally
    result,             \* which path retry_notification took
    invoked,            \* history: provider calls of the current round
    added,              \* ids of the attempt rows this round inserted
    exc,                \* the exception in flight while the session closes
    registry,           \* NotificationService.providers: channels with a provider
    credentials,        \* the credential settings that are set (non-empty)
    backend,            \* per channel, what the provider's network I/O does
    faults,             \* store / queue failures still to be injected
    raisedMsgs,         \* history: entries whose processing raised, with cause
    snapshot,           \* history: the last acknowledged entry and the row then
    retry_backoff_base, \* settings.retry_backoff_base
    shutdown,           \* _shutdown_event is set
    reader,             \* a GET /notifications/{id} request and what it read
    delay,              \* the backoff delay the worker slept for its entry
    group               \* the consumer group of the stream exists

store == <<notifications, attempts>>
queue == <<stream, lastDelivered, pel>>
locals == <<nid, chans, att, idx, mem, msg, outcome, result, invoked, added,
           exc>>
env == <<registry, credentials, backend, faults>>
hist == <<raisedMsgs, snapshot>>
outer == <<retry_backoff_base, shutdown, reader, group>>
vars == <<max_retry_attempts, notifications, attempts, stream, lastDelivered,
          pel, rounds, pc, nid, chans, att, idx, mem, msg, outcome, result,
          invoked, added, registry, credentials, backend, faults, raisedMsgs,
          snapshot, retry_backoff_base, shutdown, reader, delay, group, exc>>

NoFaults == [store |-> 0, queue |-> 0]
AllFaults == [store |-> MaxFaults, queue |-> MaxFaults]
NoSnapshot == [msg |-> 0, row |-> NoRow, count |-> 0]
\* no GET request in progress
NoReader == [pc |-> "idle", id |-> 0, row |-> NoRow, attempts |-> <<>>]

\* ------------------------------------------------------------ providers
\* the mutant of is_smtp_configured: one credential is taken to be enough
is_smtp_configured_any == SmtpCredentials \cap credentials # {}

is_smtp_configured == SmtpCredentials \subseteq credentials
is_twilio_configured == TwilioCredentials \subseteq credentials
is_telegram_configured == TelegramCredentials \subseteq credentials

\* the I/O of a configured provider: TRUE it returns, FALSE it raises
NetworkOutcomes(net) ==
    CASE net = "up" -> {TRUE}
      [] net = "down" -> {FALSE}
      [] net = "any" -> BOOLEAN

\* send of each provider: without its credentials it logs "[MOCK]" and
\* returns, with them it performs the I/O
EmailProvider_send ==
    IF ~is_smtp_configured THEN {TRUE} ELSE NetworkOutcomes(backend["EMAIL"])
SMSProvider_send ==
    IF ~is_twilio_configured THEN {TRUE} ELSE NetworkOutcomes(backend["SMS"])
TelegramProvider_send ==
    IF ~is_telegram_configured THEN {TRUE}
    ELSE NetworkOutcomes(backend["TELEGRAM"])

\* self.providers.get(channel).send(...): TRUE returned, FALSE raised
ProviderOutcomes(ch) ==
    CASE ch = "EMAIL" -> EmailProvider_send
      [] ch = "SMS" -> SMSProvider_send
      [] ch = "TELEGRAM" -> TelegramProvider_send

\* ------------------------------------------------------------- helpers
\* the mutant of AttemptRow: the success flag is not stored
AttemptRowUnflagged(id, channel, success, error) ==
    [notification_id |-> id, channel |-> ChannelValue(channel),
     success |-> FALSE, error_message |-> error]

\* the mutant of AttemptRow: the cause of a failure is not stored
AttemptRowNoCause(id, channel, success, error) ==
    [notification_id |-> id, channel |-> ChannelValue(channel),
     success |-> success, error_message |-> NULL]

AttemptRow(id, channel, success, error) ==
    [notification_id |-> id, channel |-> ChannelValue(channel),
     success |-> success, error_message |-> error]

\* the attempts of one notification, in insertion order
AttemptsOf(id) == SelectSeq(attempts, LAMBDA a : a.notification_id = id)

\* the mutant of RetryPayload: the channel order is lost (reversed)
RetryPayloadReordered(id, channels, attempt) ==
    [payload |->
        [notification_id |-> StrOfUuid(id),
         channels |-> [k \in 1..Len(channels) |->
                          ChannelValue(channels[Len(channels) + 1 - k])],
         attempt |-> attempt]]

\* the mutant of RetryPayload: only the first channel is written
RetryPayloadFirstChannel(id, channels, attempt) ==
    [payload |->
        [notification_id |-> StrOfUuid(id),
         channels |-> <<ChannelValue(channels[1])>>,
         attempt |-> attempt]]

\* json.dumps(retry_payload) inside the stream entry {"payload": ...}
RetryPayload(id, channels, attempt) ==
    [payload |->
        [notification_id |-> StrOfUuid(id),
         channels |-> [k \in 1..Len(channels) |-> ChannelValue(channels[k])],
         attempt |-> attempt]]

\* the three keys process_retry_message reads are in the payload, and
\* DeliveryChannel(ch) accepts every tag of the entry's channel list
Decodable(entry) ==
    /\ {"notification_id", "channels", "attempt"} \subseteq DOMAIN entry.payload
    /\ \A k \in 1..Len(entry.payload.channels) :
          \E ch \in DeliveryChannel : ChannelValue(ch) = entry.payload.channels[k]

\* the mutant of DecodePayload: the channel list is read back to front
DecodePayloadReversed(entry) ==
    [notification_id |-> entry.payload.notification_id,
     channels |-> [k \in 1..Len(entry.payload.channels) |->
                      ChannelOfValue(entry.payload.channels[
                          Len(entry.payload.channels) + 1 - k])],
     attempt |-> entry.payload.attempt]

\* json.loads(message_data["payload"]) and the three reads that follow
DecodePayload(entry) ==
    [notification_id |-> entry.payload.notification_id,
     channels |-> [k \in 1..Len(entry.payload.channels) |->
                      ChannelOfValue(entry.payload.channels[k])],
     attempt |-> entry.payload.attempt]

\* UPDATE notifications SET <changed columns> WHERE id = :id, as the unit of
\* work emits it: a column is written only when its new value differs from
\* the value the session holds as loaded
FlushNotification(id, old, new) ==
    [notifications EXCEPT ![id] =
        [status |-> IF new.status # old.status THEN new.status ELSE @.status,
         channel_used |-> IF new.channel_used # old.channel_used
                          THEN new.channel_used ELSE @.channel_used]]

\* the mutant of get_notification: the WHERE clause is lost, the first row
\* of the table is returned
get_notification_unfiltered(id) == notifications[CHOOSE n \in NIds : TRUE]

\* SELECT ... WHERE id = :id, scalar_one_or_none()
get_notification(id) == IF id \in NIds THEN notifications[id] ELSE NoRow

\* the mutant of RetryPath: the early return on a missing notification is
\* missing
RetryPathNoFoundCheck(row) ==
    IF row.status = SENT THEN "already_sent" ELSE "retried"

\* the mutant of RetryPath: the early return on status = sent is missing
RetryPathNoSentCheck(row) ==
    IF row = NoRow THEN "not_found" ELSE "retried"

\* which way retry_notification goes once the notification is loaded
RetryPath(row) ==
    IF row = NoRow THEN "not_found"
    ELSE IF row.status = SENT THEN "already_sent"
    ELSE "retried"

\* the mutant of LoopPc: the cascade stops after the first channel
LoopPcNoFallback(channels, i) ==
    IF i <= Len(channels) /\ i <= 1 THEN "send" ELSE "mark_failed"

\* the mutant of LoopPc: falling out of the loop skips the status write
LoopPcNoMark(channels, i) == IF i <= Len(channels) THEN "send" ELSE "enqueue"

\* head of the for-loop: next channel, or fall out of the loop
LoopPc(channels, i) == IF i <= Len(channels) THEN "send" ELSE "mark_failed"

\* the mutant of RequeueCondition: the cap is not looked at
RequeueConditionNoCap(status, attempt) == status = FAILED

\* the mutant of RequeueCondition: the status is not looked at
RequeueConditionNoStatus(status, attempt) == attempt < max_retry_attempts

\* after _attempt_delivery has returned: create_and_send returns, and
\* retry_notification decides whether to enqueue attempt + 1
RequeueCondition(status, attempt) ==
    status = FAILED /\ attempt < max_retry_attempts

\* the mutant of AfterDelivery: the worker acknowledges without the
\* follow-up entry
AfterDeliveryNoRequeue(p, status) ==
    IF p \in Requests THEN "returned" ELSE "close"

AfterDelivery(p, status) ==
    IF p \in Requests THEN "returned"
    ELSE IF RequeueCondition(status, att[p]) THEN "requeue" ELSE "close"

\* the mutant of BackoffDelay: the exponent is the attempt number
BackoffDelayNoOffset(base, attempt) ==
    [m |-> base.m ^ attempt, e |-> base.e * attempt]

\* delay = settings.retry_backoff_base ** (attempt - 1), the exact power
BackoffDelay(base, attempt) ==
    [m |-> base.m ^ (attempt - 1), e |-> base.e * (attempt - 1)]

\* the mutant of LoopHead: the loop is left after the first iteration
LoopHeadStops == "closing"

\* the mutant of LoopHead: the worker loop does not look at the event
LoopHeadNoCheck == "idle"

\* `while not _shutdown_event.is_set()`: the next xreadgroup is issued, or
\* the loop is left
LoopHead == IF shutdown THEN "closing" ELSE "idle"

\* the mutant of PendingAfterError: the handler acknowledges the entry
PendingAfterErrorAcked(entries, m) == entries \ {m}

\* the except branch of process_retry_message: log, no xack
PendingAfterError(entries, m) == entries

\* --------------------------------------------------------------- Init
\* empty store, empty stream, nothing read or sent yet
InitData ==
    /\ max_retry_attempts \in 1..MaxRetrySetting
    /\ notifications = [n \in NIds |-> NoRow]
    /\ attempts = <<>>
    /\ stream = <<>>
    /\ lastDelivered = 0
    /\ pel = {}
    /\ rounds = [n \in NIds |-> 0]
    /\ nid = [p \in Procs |-> 0]
    /\ chans = [p \in Procs |-> <<>>]
    /\ att = [p \in Procs |-> 0]
    /\ idx = [p \in Procs |-> 0]
    /\ mem = [p \in Procs |-> NoRow]
    /\ msg = [p \in Procs |-> 0]
    /\ outcome = [p \in Procs |-> FALSE]
    /\ result = [p \in Procs |-> "none"]
    /\ invoked = [p \in Procs |-> <<>>]
    /\ added = [p \in Procs |-> <<>>]
    /\ exc = [p \in Procs |-> "none"]
    /\ raisedMsgs = {}
    /\ snapshot = NoSnapshot
    /\ shutdown = FALSE
    /\ reader = NoReader
    /\ delay = [p \in Procs |-> FloatZero]

\* requests not yet made; the workers have created the consumer group and
\* stand in their loop
InitState ==
    /\ InitData
    /\ pc = [p \in Procs |-> IF p \in Requests THEN "new" ELSE "idle"]
    /\ group = TRUE

\* the backoff base at its default
InitSystem ==
    /\ InitState
    /\ retry_backoff_base = DefaultBackoffBase

\* healthy store and queue, every channel registered, every provider
\* configured and its network free to succeed or fail
Init ==
    /\ InitSystem
    /\ registry = Providers
    /\ credentials = Credentials
    /\ backend = AllAny
    /\ faults = NoFaults

\* ------------------------------------------------------ create_and_send
\* create_and_send: add the pending row and `await self.db.commit()`, the
\* INSERT is committed
CreateNotification(r, channels) ==
    /\ pc[r] = "new"
    /\ LET id == CHOOSE n \in NIds : notifications[n] = NoRow
                                     /\ \A m \in 1..(n - 1) : notifications[m] # NoRow
           row == [status |-> PENDING, channel_used |-> NULL]
       IN /\ notifications' = [notifications EXCEPT ![id] = row]
          /\ nid' = [nid EXCEPT ![r] = id]
          /\ mem' = [mem EXCEPT ![r] = row]
    /\ chans' = [chans EXCEPT ![r] = channels]
    /\ pc' = [pc EXCEPT ![r] = "refresh"]
    /\ UNCHANGED <<env, hist, max_retry_attempts, exc, outer, delay,
                   attempts, rounds, queue, att, idx, msg, outcome, result,
                   invoked, added>>

\* create_and_send: `await self.db.refresh(notification)` reads the row
\* again, then _attempt_delivery is entered
RefreshNotification(r) ==
    /\ pc[r] = "refresh"
    /\ mem' = [mem EXCEPT ![r] = get_notification(nid[r])]
    /\ rounds' = [rounds EXCEPT ![nid[r]] = @ + 1]
    /\ idx' = [idx EXCEPT ![r] = 1]
    /\ pc' = [pc EXCEPT ![r] = LoopPc(chans[r], 1)]
    /\ UNCHANGED <<env, hist, max_retry_attempts, exc, outer, delay, store,
                   queue, nid, chans, att, msg, outcome, result, invoked,
                   added>>

\* ---------------------------------------------------- _attempt_delivery
\* provider lookup and `await provider.send(...)` for channels[idx]
ProviderSend(p) ==
    /\ pc[p] = "send"
    /\ IF chans[p][idx[p]] \notin registry
       THEN /\ idx' = [idx EXCEPT ![p] = @ + 1]
            /\ pc' = [pc EXCEPT ![p] = LoopPc(chans[p], idx[p] + 1)]
            /\ UNCHANGED <<outcome, invoked>>
       ELSE /\ \E ok \in ProviderOutcomes(chans[p][idx[p]]) :
                 /\ outcome' = [outcome EXCEPT ![p] = ok]
                 /\ invoked' = [invoked EXCEPT ![p] =
                        Append(@, [channel |-> chans[p][idx[p]], ok |-> ok])]
            /\ pc' = [pc EXCEPT ![p] = "commit"]
            /\ UNCHANGED idx
    /\ UNCHANGED <<env, hist, max_retry_attempts, exc, outer, delay, store,
                   queue, rounds, nid, chans, att, mem, msg, result, added>>

\* send returned: add the success attempt, set status and channel_used,
\* commit, return from _attempt_delivery
CommitSuccess(p) ==
    /\ pc[p] = "commit"
    /\ outcome[p]
    /\ LET ch == chans[p][idx[p]]
           new == [status |-> SENT, channel_used |-> ChannelValue(ch)]
       IN /\ attempts' = Append(attempts, AttemptRow(nid[p], ch, TRUE, NULL))
          /\ notifications' = FlushNotification(nid[p], mem[p], new)
          /\ mem' = [mem EXCEPT ![p] = new]
          /\ pc' = [pc EXCEPT ![p] = AfterDelivery(p, new.status)]
    /\ added' = [added EXCEPT ![p] = Append(@, Len(attempts) + 1)]
    /\ UNCHANGED <<env, hist, max_retry_attempts, exc, outer, delay, queue,
                   rounds, nid, chans, att, idx, msg, outcome, result,
                   invoked>>

\* the mutant of CommitFailure: the failure is written over the newest
\* attempt row instead of being inserted
CommitFailureOverwrite(p) ==
    /\ pc[p] = "commit"
    /\ ~outcome[p]
    /\ LET row == AttemptRow(nid[p], chans[p][idx[p]], FALSE, ErrorCause)
       IN attempts' = IF attempts = <<>> THEN <<row>>
                      ELSE [attempts EXCEPT ![Len(attempts)] = row]
    /\ added' = [added EXCEPT ![p] = Append(@, Len(attempts'))]
    /\ idx' = [idx EXCEPT ![p] = @ + 1]
    /\ pc' = [pc EXCEPT ![p] = LoopPc(chans[p], idx[p] + 1)]
    /\ UNCHANGED <<env, hist, max_retry_attempts, exc, outer, delay,
                   notifications, queue, rounds, nid, chans, att, mem, msg,
                   outcome, result, invoked>>

\* send raised: add the failure attempt, commit, go on with the next channel
CommitFailure(p) ==
    /\ pc[p] = "commit"
    /\ ~outcome[p]
    /\ attempts' = Append(attempts,
                          AttemptRow(nid[p], chans[p][idx[p]], FALSE, ErrorCause))
    /\ added' = [added EXCEPT ![p] = Append(@, Len(attempts) + 1)]
    /\ idx' = [idx EXCEPT ![p] = @ + 1]
    /\ pc' = [pc EXCEPT ![p] = LoopPc(chans[p], idx[p] + 1)]
    /\ UNCHANGED <<env, hist, max_retry_attempts, exc, outer, delay,
                   notifications, queue, rounds, nid, chans, att, mem, msg,
                   outcome, result, invoked>>

\* the loop ended without a success: status = failed, commit
MarkFailed(p) ==
    /\ pc[p] = "mark_failed"
    /\ LET new == [mem[p] EXCEPT !.status = FAILED]
       IN /\ notifications' = FlushNotification(nid[p], mem[p], new)
          /\ mem' = [mem EXCEPT ![p] = new]
    /\ pc' = [pc EXCEPT ![p] = "enqueue"]
    /\ UNCHANGED <<env, hist, max_retry_attempts, exc, outer, delay, attempts,
                   queue, rounds, nid, chans, att, idx, msg, outcome, result,
                   invoked, added>>

\* _enqueue_retry, called at the end of every round in which all channels
\* failed; then _attempt_delivery returns
EnqueueRetry(p) ==
    /\ pc[p] = "enqueue"
    /\ Len(stream) < MaxStream
    /\ stream' = Append(stream, RetryPayload(nid[p], chans[p], 1))
    /\ pc' = [pc EXCEPT ![p] = AfterDelivery(p, mem[p].status)]
    /\ UNCHANGED <<env, hist, max_retry_attempts, outer, delay, store,
                   lastDelivered, pel, rounds, locals>>

\* ----------------------------------------------------------- the worker
\* xreadgroup(">", count=1) returned an entry; process_retry_message decodes
\* it, computes the backoff delay and starts to sleep it
ReadMessage(w) ==
    /\ pc[w] = "idle"
    /\ lastDelivered < Len(stream)
    /\ Decodable(stream[lastDelivered + 1])
    /\ LET m == lastDelivered + 1
           payload == DecodePayload(stream[m])
       IN /\ IsFloat(BackoffDelay(retry_backoff_base, payload.attempt))
          /\ lastDelivered' = m
          /\ pel' = pel \cup {m}
          /\ msg' = [msg EXCEPT ![w] = m]
          /\ nid' = [nid EXCEPT ![w] = UuidOfStr(payload.notification_id)]
          /\ chans' = [chans EXCEPT ![w] = payload.channels]
          /\ att' = [att EXCEPT ![w] = payload.attempt]
          /\ delay' = [delay EXCEPT ![w] =
                BackoffDelay(retry_backoff_base, payload.attempt)]
    /\ pc' = [pc EXCEPT ![w] = "sleep"]
    /\ UNCHANGED <<env, hist, max_retry_attempts, exc, outer, store, stream,
                   rounds, idx, mem, outcome, result, invoked, added>>

\* `await asyncio.sleep(delay)` is over: the session is opened and
\* retry_notification is called
BackoffSleep(w) ==
    /\ pc[w] = "sleep"
    /\ pc' = [pc EXCEPT ![w] = "load"]
    /\ UNCHANGED <<env, hist, max_retry_attempts, outer, delay, store, queue,
                   rounds, locals>>

\* retry_notification, get_notification: the SELECT of the notification
\* row.  Without a row scalar_one_or_none() gives None, no second SELECT is
\* emitted and retry_notification takes its first early return
LoadNotification(w) ==
    /\ pc[w] = "load"
    /\ LET row == get_notification(nid[w])
       IN /\ mem' = [mem EXCEPT ![w] = row]
          /\ IF row = NoRow
             THEN /\ result' = [result EXCEPT ![w] = RetryPath(row)]
                  /\ pc' = [pc EXCEPT ![w] =
                        IF RetryPath(row) = "retried" THEN "reset" ELSE "close"]
             ELSE /\ pc' = [pc EXCEPT ![w] = "selectin"]
                  /\ UNCHANGED result
    /\ UNCHANGED <<env, hist, max_retry_attempts, exc, outer, delay, store,
                   queue, rounds, nid, chans, att, idx, msg, outcome,
                   invoked, added>>

\* the mutant of LoadAttempts: the reset of the status to pending and its
\* commit stand before the early returns
LoadAttemptsResetFirst(w) ==
    /\ pc[w] = "selectin"
    /\ LET new == [mem[w] EXCEPT !.status = PENDING]
       IN /\ notifications' = FlushNotification(nid[w], mem[w], new)
          /\ mem' = [mem EXCEPT ![w] = new]
    /\ result' = [result EXCEPT ![w] = RetryPath(mem[w])]
    /\ pc' = [pc EXCEPT ![w] =
          IF RetryPath(mem[w]) = "retried" THEN "reset" ELSE "close"]
    /\ UNCHANGED <<env, hist, max_retry_attempts, exc, outer, delay, attempts,
                   queue, rounds, nid, chans, att, idx, msg, outcome, invoked,
                   added>>

\* get_notification, the SELECT that selectinload emits for the attempts of
\* the row; then the early returns of retry_notification on the row loaded
LoadAttempts(w) ==
    /\ pc[w] = "selectin"
    /\ result' = [result EXCEPT ![w] = RetryPath(mem[w])]
    /\ pc' = [pc EXCEPT ![w] =
          IF RetryPath(mem[w]) = "retried" THEN "reset" ELSE "close"]
    /\ UNCHANGED <<env, hist, max_retry_attempts, exc, outer, delay, store,
                   queue, rounds, nid, chans, att, idx, mem, msg, outcome,
                   invoked, added>>

\* retry_notification: status = pending, commit, enter _attempt_delivery
ResetPending(w) ==
    /\ pc[w] = "reset"
    /\ LET new == [mem[w] EXCEPT !.status = PENDING]
       IN /\ notifications' = FlushNotification(nid[w], mem[w], new)
          /\ mem' = [mem EXCEPT ![w] = new]
    /\ rounds' = [rounds EXCEPT ![nid[w]] = @ + 1]
    /\ idx' = [idx EXCEPT ![w] = 1]
    /\ pc' = [pc EXCEPT ![w] = LoopPc(chans[w], 1)]
    /\ UNCHANGED <<env, hist, max_retry_attempts, exc, outer, delay, attempts,
                   queue, nid, chans, att, msg, outcome, result, invoked,
                   added>>

\* retry_notification: still failed and attempt < max_retry_attempts
Requeue(w) ==
    /\ pc[w] = "requeue"
    /\ Len(stream) < MaxStream
    /\ stream' = Append(stream, RetryPayload(nid[w], chans[w], att[w] + 1))
    /\ pc' = [pc EXCEPT ![w] = "close"]
    /\ UNCHANGED <<env, hist, max_retry_attempts, outer, delay, store,
                   lastDelivered, pel, rounds, locals>>

\* retry_notification has returned: leaving `async with session_factory()`
\* awaits the close of the session; the xack comes next
CloseSession(w) ==
    /\ pc[w] = "close"
    /\ pc' = [pc EXCEPT ![w] = "ack"]
    /\ UNCHANGED <<env, hist, max_retry_attempts, outer, delay, store, queue,
                   rounds, locals>>

\* the processing of an entry is over: the session and the locals of
\* process_retry_message are gone, the worker is back in its loop
LeaveProcessing(w) ==
    /\ pc' = [pc EXCEPT ![w] = LoopHead]
    /\ delay' = [delay EXCEPT ![w] = FloatZero]
    /\ nid' = [nid EXCEPT ![w] = 0]
    /\ chans' = [chans EXCEPT ![w] = <<>>]
    /\ att' = [att EXCEPT ![w] = 0]
    /\ idx' = [idx EXCEPT ![w] = 0]
    /\ mem' = [mem EXCEPT ![w] = NoRow]
    /\ msg' = [msg EXCEPT ![w] = 0]
    /\ outcome' = [outcome EXCEPT ![w] = FALSE]
    /\ result' = [result EXCEPT ![w] = "none"]
    /\ invoked' = [invoked EXCEPT ![w] = <<>>]
    /\ added' = [added EXCEPT ![w] = <<>>]
    /\ exc' = [exc EXCEPT ![w] = "none"]

\* process_retry_message: xack, back to the worker loop
Acknowledge(w) ==
    /\ pc[w] = "ack"
    /\ pel' = pel \ {msg[w]}
    /\ LeaveProcessing(w)
    /\ UNCHANGED <<env, max_retry_attempts, outer, store, stream, lastDelivered,
                   rounds, raisedMsgs>>

Ack(w) == Acknowledge(w) /\ UNCHANGED snapshot

\* ------------------------------------------------------------ the system
Next ==
    \/ \E r \in Requests, channels \in ChannelLists : CreateNotification(r, channels)
    \/ \E r \in Requests : RefreshNotification(r)
    \/ \E p \in Procs : ProviderSend(p)
    \/ \E p \in Procs : CommitSuccess(p)
    \/ \E p \in Procs : CommitFailure(p)
    \/ \E p \in Procs : MarkFailed(p)
    \/ \E p \in Procs : EnqueueRetry(p)
    \/ \E w \in Workers : ReadMessage(w)
    \/ \E w \in Workers : BackoffSleep(w)
    \/ \E w \in Workers : LoadNotification(w)
    \/ \E w \in Workers : LoadAttempts(w)
    \/ \E w \in Workers : CloseSession(w)
    \/ \E w \in Workers : ResetPending(w)
    \/ \E w \in Workers : Requeue(w)
    \/ \E w \in Workers : Ack(w)

Spec == Init /\ [][Next]_vars

\* ======================================================================
\* Failures of the store and of the queue, undecodable entries
\* ======================================================================
\* an exception leaves the engine: create_and_send raises it to the route;
\* in the worker process_retry_message catches it, logs, and does not xack
\* the positions of a worker inside `async with session_factory()`
InsideSession ==
    {"load", "selectin", "reset", "send", "commit", "mark_failed",
     "enqueue", "requeue"}

\* `except Exception` of process_retry_message: log, no xack, return to the
\* worker loop
HandleException(w, cause) ==
    /\ pel' = PendingAfterError(pel, msg[w])
    /\ raisedMsgs' = raisedMsgs \cup {[msg |-> msg[w], cause |-> cause]}
    /\ LeaveProcessing(w)

\* the statement p stands at raises.  create_and_send raises to the route.
\* In the worker an exception from inside `async with` first waits for the
\* close of the session, the handler not yet run; one from the close
\* itself or from xack goes to the handler at once
Raise(p, cause) ==
    IF p \in Requests
    THEN /\ pc' = [pc EXCEPT ![p] = "raised"]
         /\ UNCHANGED <<locals, delay, pel, raisedMsgs>>
    ELSE IF pc[p] \in InsideSession
    THEN /\ pc' = [pc EXCEPT ![p] = "unwind"]
         /\ exc' = [exc EXCEPT ![p] = cause]
         /\ UNCHANGED <<nid, chans, att, idx, mem, msg, outcome, result,
                        invoked, added, delay, pel, raisedMsgs>>
    ELSE HandleException(p, cause)

\* the close of the session that the exit of `async with` awaits with an
\* exception in flight is over: the exception reaches the handler
CloseRaising(w) ==
    /\ pc[w] = "unwind"
    /\ HandleException(w, exc[w])
    /\ UNCHANGED <<env, max_retry_attempts, outer, store, stream,
                   lastDelivered, rounds, snapshot>>

\* p stands at an await on the store that no try block of the engine covers:
\* the commit of the INSERT and the refresh of create_and_send, the commit
\* of a failure attempt, the commit of status failed, the two SELECTs and
\* the commit of
\* status pending of retry_notification, the close of the worker's session
\* (after retry_notification returned, or with an exception in flight)
StoreAwait(p) ==
    \/ pc[p] \in {"new", "refresh"} /\ p \in Requests
    \/ pc[p] = "commit" /\ ~outcome[p]
    \/ pc[p] \in {"mark_failed", "load", "selectin", "reset", "close",
                "unwind"}

\* that statement raises; the transaction is rolled back
StoreFailure(p) ==
    /\ faults.store > 0
    /\ StoreAwait(p)
    /\ faults' = [faults EXCEPT !.store = @ - 1]
    /\ Raise(p, "store")
    /\ UNCHANGED <<max_retry_attempts, outer, store, stream, lastDelivered,
                   rounds, registry, credentials, backend, snapshot>>

\* xadd of _enqueue_retry or of retry_notification, or xack, raises
QueueFailure(p) ==
    /\ faults.queue > 0
    /\ pc[p] \in {"enqueue", "requeue", "ack"}
    /\ faults' = [faults EXCEPT !.queue = @ - 1]
    /\ Raise(p, "queue")
    /\ UNCHANGED <<max_retry_attempts, outer, store, stream, lastDelivered,
                   rounds, registry, credentials, backend, snapshot>>

\* the mutant of SuccessCommitFails: the handler finds a usable session,
\* records the store's error as a failure attempt and the loop goes on
SuccessCommitFailsRecorded(p) ==
    /\ faults.store > 0
    /\ pc[p] = "commit"
    /\ outcome[p]
    /\ faults' = [faults EXCEPT !.store = @ - 1]
    /\ attempts' = Append(attempts,
          AttemptRow(nid[p], chans[p][idx[p]], FALSE, StoreErrorCause))
    /\ added' = [added EXCEPT ![p] = Append(@, Len(attempts) + 1)]
    /\ idx' = [idx EXCEPT ![p] = @ + 1]
    /\ pc' = [pc EXCEPT ![p] = LoopPc(chans[p], idx[p] + 1)]
    /\ UNCHANGED <<max_retry_attempts, outer, delay, notifications, queue,
                   rounds, nid, chans, att, mem, msg, outcome, result, invoked,
                   exc, registry, credentials, backend, hist>>

\* the commit of the success attempt raises.  It stands inside the try
\* block, so `except Exception` catches it; the handler then works on the
\* session whose transaction that commit left rolled back (src/ never
\* calls rollback): reading notification.id, or at the latest the
\* handler's own commit, raises, nothing is written, and that exception
\* leaves _attempt_delivery
SuccessCommitFails(p) ==
    /\ faults.store > 0
    /\ pc[p] = "commit"
    /\ outcome[p]
    /\ faults' = [faults EXCEPT !.store = @ - 1]
    /\ Raise(p, "store")
    /\ UNCHANGED <<max_retry_attempts, outer, store, stream, lastDelivered,
                   rounds, registry, credentials, backend, snapshot>>

\* a producer other than this service appends an entry whose channel list
\* names a channel the service does not know
ForeignAppend(n) ==
    /\ Len(stream) < MaxStream
    /\ stream' = Append(stream,
          [payload |-> [notification_id |-> StrOfUuid(n),
                        channels |-> <<UnknownTag>>,
                        attempt |-> 1]])
    /\ UNCHANGED <<env, hist, max_retry_attempts, outer, delay, store,
                   lastDelivered, pel, rounds, pc, locals>>

\* a producer other than this service appends an entry whose payload lacks
\* the attempt key
ForeignAppendPartial(n) ==
    /\ Len(stream) < MaxStream
    /\ stream' = Append(stream,
          [payload |-> [notification_id |-> StrOfUuid(n),
                        channels |-> <<"email">>]])
    /\ UNCHANGED <<env, hist, max_retry_attempts, outer, delay, store,
                   lastDelivered, pel, rounds, pc, locals>>

\* xreadgroup delivers an entry that process_retry_message cannot decode:
\* payload[...] or DeliveryChannel(ch) raises inside the try block, before
\* any other step
ReadMalformed(w) ==
    /\ pc[w] = "idle"
    /\ lastDelivered < Len(stream)
    /\ ~Decodable(stream[lastDelivered + 1])
    /\ LET m == lastDelivered + 1
       IN /\ lastDelivered' = m
          /\ pel' = PendingAfterError(pel \cup {m}, m)
          /\ raisedMsgs' = raisedMsgs \cup {[msg |-> m, cause |-> "decode"]}
    /\ pc' = [pc EXCEPT ![w] = LoopHead]
    /\ UNCHANGED <<env, max_retry_attempts, outer, delay, store, stream, rounds,
                   locals, snapshot>>

\* one request and one worker; the store and the queue may fail up to
\* MaxFaults times each
InitFaults ==
    /\ InitSystem
    /\ registry = Providers
    /\ credentials = Credentials
    /\ backend = AllAny
    /\ faults = AllFaults

\* the requests of the runs with failures: one channel, and two channels
\* with a fallback
FaultRunLists == {<<"EMAIL">>, <<"EMAIL", "SMS">>}

NextFaults ==
    \/ \E r \in Requests, channels \in FaultRunLists : CreateNotification(r, channels)
    \/ \E r \in Requests : RefreshNotification(r)
    \/ \E p \in SoloProcs : ProviderSend(p)
    \/ \E p \in SoloProcs : CommitSuccess(p)
    \/ \E p \in SoloProcs : CommitFailure(p)
    \/ \E p \in SoloProcs : MarkFailed(p)
    \/ \E p \in SoloProcs : EnqueueRetry(p)
    \/ \E w \in SoloWorkers : ReadMessage(w)
    \/ \E w \in SoloWorkers : BackoffSleep(w)
    \/ \E w \in SoloWorkers : LoadNotification(w)
    \/ \E w \in SoloWorkers : LoadAttempts(w)
    \/ \E w \in SoloWorkers : CloseSession(w)
    \/ \E w \in SoloWorkers : ResetPending(w)
    \/ \E w \in SoloWorkers : Requeue(w)
    \/ \E w \in SoloWorkers : Ack(w)
    \/ \E p \in SoloProcs : StoreFailure(p)
    \/ \E p \in SoloProcs : QueueFailure(p)
    \/ \E w \in SoloWorkers : CloseRaising(w)
    \/ \E p \in SoloProcs : SuccessCommitFails(p)
    \/ \E n \in NIds : ForeignAppend(n)
    \/ \E n \in NIds : ForeignAppendPartial(n)
    \/ \E w \in SoloWorkers : ReadMalformed(w)

SpecFaults == InitFaults /\ [][NextFaults]_vars

\* the steps the code of p takes by itself: the event loop keeps running
\* every request and the worker loop; failures and foreign entries are the
\* environment's and are not forced
CodeStep(p) ==
    \/ \E channels \in ChannelLists : CreateNotification(p, channels)
    \/ RefreshNotification(p)
    \/ ProviderSend(p)
    \/ CommitSuccess(p)
    \/ CommitFailure(p)
    \/ MarkFailed(p)
    \/ EnqueueRetry(p)
    \/ CloseRaising(p)
    \/ ReadMessage(p)
    \/ ReadMalformed(p)
    \/ BackoffSleep(p)
    \/ LoadNotification(p)
    \/ LoadAttempts(p)
    \/ CloseSession(p)
    \/ ResetPending(p)
    \/ Requeue(p)
    \/ Ack(p)

FairScheduling == \A p \in SoloProcs : WF_vars(CodeStep(p))

SpecFaultsFair == InitFaults /\ [][NextFaults]_vars /\ FairScheduling

\* ======================================================================
\* One request and one worker, healthy store and queue, fair scheduling
\* ======================================================================
InitSolo ==
    /\ InitSystem
    /\ registry = Providers
    /\ credentials = Credentials
    /\ backend \in {AllAny, AllDown}
    /\ faults = NoFaults

NextSolo ==
    \/ \E r \in Requests, channels \in ChannelLists : CreateNotification(r, channels)
    \/ \E r \in Requests : RefreshNotification(r)
    \/ \E p \in SoloProcs : ProviderSend(p)
    \/ \E p \in SoloProcs : CommitSuccess(p)
    \/ \E p \in SoloProcs : CommitFailure(p)
    \/ \E p \in SoloProcs : MarkFailed(p)
    \/ \E p \in SoloProcs : EnqueueRetry(p)
    \/ \E w \in SoloWorkers : ReadMessage(w)
    \/ \E w \in SoloWorkers : BackoffSleep(w)
    \/ \E w \in SoloWorkers : LoadNotification(w)
    \/ \E w \in SoloWorkers : LoadAttempts(w)
    \/ \E w \in SoloWorkers : CloseSession(w)
    \/ \E w \in SoloWorkers : ResetPending(w)
    \/ \E w \in SoloWorkers : Requeue(w)
    \/ \E w \in SoloWorkers : Ack(w)

SpecSoloFair == InitSolo /\ [][NextSolo]_vars /\ FairScheduling

\* the same system without the scheduling assumption
SpecSolo == InitSolo /\ [][NextSolo]_vars

\* ======================================================================
\* create_and_send under every provider configuration
\* ======================================================================
InitProviders ==
    /\ InitSystem
    /\ registry = Providers
    /\ credentials \in SUBSET Credentials
    /\ backend \in {AllAny, AllDown}
    /\ faults = NoFaults

NextProviders ==
    \/ \E r \in Requests, channels \in ChannelLists : CreateNotification(r, channels)
    \/ \E r \in Requests : RefreshNotification(r)
    \/ \E r \in Requests : ProviderSend(r)
    \/ \E r \in Requests : CommitSuccess(r)
    \/ \E r \in Requests : CommitFailure(r)
    \/ \E r \in Requests : MarkFailed(r)
    \/ \E r \in Requests : EnqueueRetry(r)

SpecProviders == InitProviders /\ [][NextProviders]_vars

\* ======================================================================
\* One entry processed twice in succession, provider outcomes fixed
\* ======================================================================
\* from here on every provider has one outcome: its network is up or down
FixProviders ==
    /\ backend = AllAny
    /\ lastDelivered = 0
    /\ \A r \in Requests : pc[r] = "returned"
    /\ backend' \in [DeliveryChannel -> {"up", "down"}]
    /\ UNCHANGED <<max_retry_attempts, outer, delay, store, queue, rounds,
                   pc, locals, registry, credentials, faults, hist>>

\* xack as in Ack; the history keeps the entry and the committed row it left
AckRecorded(w) ==
    /\ Acknowledge(w)
    /\ snapshot' = IF snapshot.msg = msg[w]
                   THEN [snapshot EXCEPT !.count = 2]
                   ELSE [msg |-> msg[w],
                         row |-> get_notification(nid[w]),
                         count |-> 1]

\* the entry just acknowledged is handed to process_retry_message again,
\* which decodes it and starts to sleep; the consumer group is not involved
Redeliver(w) ==
    /\ pc[w] = "idle"
    /\ snapshot.count = 1
    /\ LET m == snapshot.msg
           payload == DecodePayload(stream[m])
       IN /\ msg' = [msg EXCEPT ![w] = m]
          /\ nid' = [nid EXCEPT ![w] = UuidOfStr(payload.notification_id)]
          /\ chans' = [chans EXCEPT ![w] = payload.channels]
          /\ att' = [att EXCEPT ![w] = payload.attempt]
          /\ delay' = [delay EXCEPT ![w] =
                BackoffDelay(retry_backoff_base, payload.attempt)]
    /\ pc' = [pc EXCEPT ![w] = "sleep"]
    /\ UNCHANGED <<env, hist, max_retry_attempts, exc, outer, store, queue,
                   rounds, idx, mem, outcome, result, invoked, added>>

NextTwice ==
    \/ \E r \in Requests, channels \in ChannelLists : CreateNotification(r, channels)
    \/ \E r \in Requests : RefreshNotification(r)
    \/ \E p \in SoloProcs : ProviderSend(p)
    \/ \E p \in SoloProcs : CommitSuccess(p)
    \/ \E p \in SoloProcs : CommitFailure(p)
    \/ \E p \in SoloProcs : MarkFailed(p)
    \/ \E p \in SoloProcs : EnqueueRetry(p)
    \/ FixProviders
    \/ \E w \in SoloWorkers :
          backend # AllAny /\ snapshot.count # 1 /\ ReadMessage(w)
    \/ \E w \in SoloWorkers : BackoffSleep(w)
    \/ \E w \in SoloWorkers : LoadNotification(w)
    \/ \E w \in SoloWorkers : LoadAttempts(w)
    \/ \E w \in SoloWorkers : CloseSession(w)
    \/ \E w \in SoloWorkers : ResetPending(w)
    \/ \E w \in SoloWorkers : Requeue(w)
    \/ \E w \in SoloWorkers : AckRecorded(w)
    \/ \E w \in SoloWorkers : Redeliver(w)

SpecTwice == Init /\ [][NextTwice]_vars

\* ======================================================================
\* GET /notifications/{id} beside one request and one worker
\* ======================================================================
\* NotificationService.get_notification, first statement: the SELECT of the
\* notification row; scalar_one_or_none() gives None when there is no row,
\* and then the call returns
ReadRow(id) ==
    /\ reader.pc = "idle"
    /\ LET row == get_notification(id)
       IN reader' = [pc |-> IF row = NoRow THEN "done" ELSE "selectin",
                     id |-> id, row |-> row, attempts |-> <<>>]
    /\ UNCHANGED <<env, hist, max_retry_attempts, retry_backoff_base, shutdown,
                   group, delay, store, queue, rounds, pc, locals>>

\* second statement, emitted by selectinload(NotificationORM.attempts): the
\* SELECT of the attempts of that notification; the call returns
ReadAttempts ==
    /\ reader.pc = "selectin"
    /\ reader' = [reader EXCEPT !.pc = "done",
                                !.attempts = AttemptsOf(reader.id)]
    /\ UNCHANGED <<env, hist, max_retry_attempts, retry_backoff_base, shutdown,
                   group, delay, store, queue, rounds, pc, locals>>

\* the route has answered (200 with the notification, or 404); the next GET
\* may come
ReaderReturn ==
    /\ reader.pc = "done"
    /\ reader' = NoReader
    /\ UNCHANGED <<env, hist, max_retry_attempts, retry_backoff_base, shutdown,
                   group, delay, store, queue, rounds, pc, locals>>

InitReader ==
    /\ InitSystem
    /\ registry = Providers
    /\ credentials = Credentials
    /\ backend = AllAny
    /\ faults = NoFaults

NextReader ==
    \/ \E r \in Requests, channels \in ChannelLists : CreateNotification(r, channels)
    \/ \E r \in Requests : RefreshNotification(r)
    \/ \E p \in SoloProcs : ProviderSend(p)
    \/ \E p \in SoloProcs : CommitSuccess(p)
    \/ \E p \in SoloProcs : CommitFailure(p)
    \/ \E p \in SoloProcs : MarkFailed(p)
    \/ \E p \in SoloProcs : EnqueueRetry(p)
    \/ \E w \in SoloWorkers : ReadMessage(w)
    \/ \E w \in SoloWorkers : BackoffSleep(w)
    \/ \E w \in SoloWorkers : LoadNotification(w)
    \/ \E w \in SoloWorkers : LoadAttempts(w)
    \/ \E w \in SoloWorkers : CloseSession(w)
    \/ \E w \in SoloWorkers : ResetPending(w)
    \/ \E w \in SoloWorkers : Requeue(w)
    \/ \E w \in SoloWorkers : Ack(w)
    \/ \E id \in NIds \cup {UnknownId} : ReadRow(id)
    \/ ReadAttempts
    \/ ReaderReturn

SpecReader == InitReader /\ [][NextReader]_vars

\* ======================================================================
\* Entries for a notification that is not in the store; the backoff delay
\* ======================================================================
\* an entry in the service's format arrives for an id under which the store
\* holds no notification
InjectRecord(channels, attempt) ==
    /\ Len(stream) < MaxStream
    /\ stream' = Append(stream, RetryPayload(UnknownId, channels, attempt))
    /\ UNCHANGED <<env, hist, max_retry_attempts, outer, delay, store,
                   lastDelivered, pel, rounds, pc, locals>>

\* one request and one worker beside such entries
NextInject ==
    \/ \E r \in Requests, channels \in FaultRunLists : CreateNotification(r, channels)
    \/ \E r \in Requests : RefreshNotification(r)
    \/ \E p \in SoloProcs : ProviderSend(p)
    \/ \E p \in SoloProcs : CommitSuccess(p)
    \/ \E p \in SoloProcs : CommitFailure(p)
    \/ \E p \in SoloProcs : MarkFailed(p)
    \/ \E p \in SoloProcs : EnqueueRetry(p)
    \/ \E w \in SoloWorkers : ReadMessage(w)
    \/ \E w \in SoloWorkers : BackoffSleep(w)
    \/ \E w \in SoloWorkers : LoadNotification(w)
    \/ \E w \in SoloWorkers : LoadAttempts(w)
    \/ \E w \in SoloWorkers : CloseSession(w)
    \/ \E w \in SoloWorkers : ResetPending(w)
    \/ \E w \in SoloWorkers : Requeue(w)
    \/ \E w \in SoloWorkers : Ack(w)
    \/ \E a \in 1..MaxInjectedAttempt : InjectRecord(<<"EMAIL">>, a)

SpecInject == InitReader /\ [][NextInject]_vars

\* xreadgroup returned an entry whose delay is out of the float range: the
\* power raises OverflowError inside the try block of
\* process_retry_message, before the sleep and before the notification is
\* loaded; the handler logs and does not xack
DelayOverflow(w) ==
    /\ pc[w] = "idle"
    /\ lastDelivered < Len(stream)
    /\ Decodable(stream[lastDelivered + 1])
    /\ LET m == lastDelivered + 1
           payload == DecodePayload(stream[m])
       IN /\ ~IsFloat(BackoffDelay(retry_backoff_base, payload.attempt))
          /\ lastDelivered' = m
          /\ pel' = PendingAfterError(pel \cup {m}, m)
          /\ raisedMsgs' = raisedMsgs \cup {[msg |-> m, cause |-> "delay"]}
    /\ pc' = [pc EXCEPT ![w] = LoopHead]
    /\ UNCHANGED <<env, max_retry_attempts, outer, delay, store, stream, rounds,
                   locals, snapshot>>

\* the worker alone, under every explored backoff base
InitBackoff ==
    /\ InitState
    /\ retry_backoff_base \in BackoffBases
    /\ registry = Providers
    /\ credentials = Credentials
    /\ backend = AllAny
    /\ faults = NoFaults

NextBackoff ==
    \/ \E a \in 1..MaxInjectedAttempt : InjectRecord(<<"EMAIL">>, a)
    \/ \E w \in SoloWorkers : ReadMessage(w)
    \/ \E w \in SoloWorkers : DelayOverflow(w)
    \/ \E w \in SoloWorkers : BackoffSleep(w)
    \/ \E w \in SoloWorkers : LoadNotification(w)
    \/ \E w \in SoloWorkers : CloseSession(w)
    \/ \E w \in SoloWorkers : Ack(w)

SpecBackoff == InitBackoff /\ [][NextBackoff]_vars

\* ======================================================================
\* Shutdown of the worker
\* ======================================================================
\* handle_shutdown: SIGTERM or SIGINT sets the event.  The signal is
\* explored while the stream has room for the two entries the processing
\* that is still to finish may append.
Shutdown ==
    /\ ~shutdown
    /\ Len(stream) + 2 <= MaxStream
    /\ shutdown' = TRUE
    /\ UNCHANGED <<env, hist, max_retry_attempts, retry_backoff_base, reader,
                   group, delay, store, queue, rounds, pc, locals>>

\* xreadgroup(block=1000) returned no entry: `continue`, back to the head
\* of the loop.  With the event not set the same read is issued again and
\* nothing has changed, so the step is taken with the event set
EmptyRead(w) ==
    /\ pc[w] = "idle"
    /\ lastDelivered = Len(stream)
    /\ shutdown
    /\ pc' = [pc EXCEPT ![w] = LoopHead]
    /\ UNCHANGED <<env, hist, max_retry_attempts, outer, delay, store, queue,
                   rounds, locals>>

\* after the loop: await redis_client.close()
Close(w) ==
    /\ pc[w] = "closing"
    /\ pc' = [pc EXCEPT ![w] = "stopped"]
    /\ UNCHANGED <<env, hist, max_retry_attempts, outer, delay, store, queue,
                   rounds, locals>>

NextShutdown ==
    \/ \E r \in Requests, channels \in FaultRunLists : CreateNotification(r, channels)
    \/ \E r \in Requests : RefreshNotification(r)
    \/ \E p \in SoloProcs : ProviderSend(p)
    \/ \E p \in SoloProcs : CommitSuccess(p)
    \/ \E p \in SoloProcs : CommitFailure(p)
    \/ \E p \in SoloProcs : MarkFailed(p)
    \/ \E p \in SoloProcs : EnqueueRetry(p)
    \/ \E w \in SoloWorkers : ReadMessage(w)
    \/ \E w \in SoloWorkers : BackoffSleep(w)
    \/ \E w \in SoloWorkers : LoadNotification(w)
    \/ \E w \in SoloWorkers : LoadAttempts(w)
    \/ \E w \in SoloWorkers : CloseSession(w)
    \/ \E w \in SoloWorkers : ResetPending(w)
    \/ \E w \in SoloWorkers : Requeue(w)
    \/ \E w \in SoloWorkers : Ack(w)
    \/ Shutdown
    \/ \E w \in SoloWorkers : EmptyRead(w)
    \/ \E w \in SoloWorkers : Close(w)

\* the event loop keeps running the worker coroutine: the blocking read
\* returns after at most a second, the sleep and the provider calls end
WorkerStep(w) == CodeStep(w) \/ EmptyRead(w) \/ Close(w)

FairShutdown ==
    /\ \A r \in Requests : WF_vars(CodeStep(r))
    /\ \A w \in SoloWorkers : WF_vars(WorkerStep(w))

SpecShutdownFair == InitReader /\ [][NextShutdown]_vars /\ FairShutdown

\* ======================================================================
\* The queue fails while the worker reads
\* ======================================================================
ReadErrorPcBreak == "closing"

\* `except Exception` of the worker loop: logger.error, then
\* await asyncio.sleep(1); the loop is not left
ReadErrorPc == "backoff"

\* xreadgroup raises (connection lost, server error): nothing was
\* delivered, the handler of the loop catches the exception
ReadFailure(w) ==
    /\ pc[w] = "idle"
    /\ faults.queue > 0
    /\ faults' = [faults EXCEPT !.queue = @ - 1]
    /\ pc' = [pc EXCEPT ![w] = ReadErrorPc]
    /\ UNCHANGED <<max_retry_attempts, outer, delay, store, queue, rounds,
                   locals, registry, credentials, backend, hist>>

\* the sleep of the handler is over: back to the head of the loop, which
\* tests the event
AfterBackoff(w) ==
    /\ pc[w] = "backoff"
    /\ pc' = [pc EXCEPT ![w] = LoopHead]
    /\ UNCHANGED <<env, hist, max_retry_attempts, outer, delay, store, queue,
                   rounds, locals>>

\* healthy store, every provider configured; the reads of the worker may
\* fail
InitConsume ==
    /\ InitSystem
    /\ registry = Providers
    /\ credentials = Credentials
    /\ backend = AllAny
    /\ faults = [store |-> 0, queue |-> MaxFaults]

NextConsume ==
    \/ \E r \in Requests, channels \in FaultRunLists : CreateNotification(r, channels)
    \/ \E r \in Requests : RefreshNotification(r)
    \/ \E p \in SoloProcs : ProviderSend(p)
    \/ \E p \in SoloProcs : CommitSuccess(p)
    \/ \E p \in SoloProcs : CommitFailure(p)
    \/ \E p \in SoloProcs : MarkFailed(p)
    \/ \E p \in SoloProcs : EnqueueRetry(p)
    \/ \E w \in SoloWorkers : ReadMessage(w)
    \/ \E w \in SoloWorkers : BackoffSleep(w)
    \/ \E w \in SoloWorkers : LoadNotification(w)
    \/ \E w \in SoloWorkers : LoadAttempts(w)
    \/ \E w \in SoloWorkers : CloseSession(w)
    \/ \E w \in SoloWorkers : ResetPending(w)
    \/ \E w \in SoloWorkers : Requeue(w)
    \/ \E w \in SoloWorkers : Ack(w)
    \/ Shutdown
    \/ \E w \in SoloWorkers : EmptyRead(w)
    \/ \E w \in SoloWorkers : Close(w)
    \/ \E w \in SoloWorkers : ReadFailure(w)
    \/ \E w \in SoloWorkers : AfterBackoff(w)

\* the sleep of one second ends; the failure of a read is the
\* environment's and is not forced
FairConsume ==
    /\ \A r \in Requests : WF_vars(CodeStep(r))
    /\ \A w \in SoloWorkers : WF_vars(WorkerStep(w) \/ AfterBackoff(w))

SpecConsumeFair == InitConsume /\ [][NextConsume]_vars /\ FairConsume

\* ======================================================================
\* Start of the workers: creation of the consumer group
\* ======================================================================
\* what the server answers to XGROUP CREATE when it can answer
GroupCreateReply == IF group THEN "BUSYGROUP" ELSE "OK"

\* the replies of a create call that fails for another reason: a
\* ResponseError without BUSYGROUP in its text, an exception that is not a
\* ResponseError
CreateErrors == {"ERR", "CONNECTION"}

AfterGroupCreateStrict(reply) ==
    IF reply = "OK" THEN LoopHead ELSE "crashed"

\* try / except aioredis.ResponseError around xgroup_create: no exception
\* goes on to the loop; a ResponseError with BUSYGROUP in its text is
\* logged and goes on to the loop; everything else leaves retry_worker
\* with the exception
AfterGroupCreate(reply) ==
    IF reply = "OK" THEN LoopHead
    ELSE IF reply = "BUSYGROUP" THEN LoopHead
    ELSE "crashed"

\* xgroup_create(name, groupname, id="0", mkstream=True) answered by the
\* server: a group that does not exist is created with nothing delivered
\* and nothing pending, so that every entry of the stream is still to be
\* delivered; an existing group is left as it is
CreateGroup(w) ==
    /\ pc[w] = "start"
    /\ pc' = [pc EXCEPT ![w] = AfterGroupCreate(GroupCreateReply)]
    /\ group' = TRUE
    /\ IF group
       THEN UNCHANGED <<lastDelivered, pel>>
       ELSE lastDelivered' = 0 /\ pel' = {}
    /\ UNCHANGED <<env, hist, max_retry_attempts, retry_backoff_base,
                   shutdown, reader, delay, store, stream, rounds, locals>>

\* xgroup_create raises something else
GroupCreateError(w, reply) ==
    /\ pc[w] = "start"
    /\ faults.queue > 0
    /\ faults' = [faults EXCEPT !.queue = @ - 1]
    /\ pc' = [pc EXCEPT ![w] = AfterGroupCreate(reply)]
    /\ UNCHANGED <<max_retry_attempts, outer, delay, store, queue, rounds,
                   locals, registry, credentials, backend, hist>>

\* the workers are started against a stream without consumer group; the
\* API is up and may append before any worker has come to its create call
InitGroup ==
    /\ InitData
    /\ pc = [p \in Procs |-> IF p \in Requests THEN "new" ELSE "start"]
    /\ group = FALSE
    /\ retry_backoff_base = DefaultBackoffBase
    /\ registry = Providers
    /\ credentials = Credentials
    /\ backend = AllAny
    /\ faults = [store |-> 0, queue |-> MaxFaults]

NextGroup ==
    \/ \E r \in Requests, channels \in FaultRunLists : CreateNotification(r, channels)
    \/ \E r \in Requests : RefreshNotification(r)
    \/ \E p \in Procs : ProviderSend(p)
    \/ \E p \in Procs : CommitSuccess(p)
    \/ \E p \in Procs : CommitFailure(p)
    \/ \E p \in Procs : MarkFailed(p)
    \/ \E p \in Procs : EnqueueRetry(p)
    \/ \E w \in Workers : ReadMessage(w)
    \/ \E w \in Workers : BackoffSleep(w)
    \/ \E w \in Workers : LoadNotification(w)
    \/ \E w \in Workers : LoadAttempts(w)
    \/ \E w \in Workers : CloseSession(w)
    \/ \E w \in Workers : ResetPending(w)
    \/ \E w \in Workers : Requeue(w)
    \/ \E w \in Workers : Ack(w)
    \/ \E w \in Workers : CreateGroup(w)
    \/ \E w \in Workers, reply \in CreateErrors : GroupCreateError(w, reply)

SpecGroup == InitGroup /\ [][NextGroup]_vars

\* ======================================================================
\* Properties
\* ======================================================================
IsRow(n) == notifications[n] # NoRow

\* the channel list the client supplied when notification n was created
SuppliedChannels(n) == chans[CHOOSE r \in Requests : nid[r] = n]

SuccessCount(n) ==
    Cardinality({i \in 1..Len(attempts) :
        attempts[i].notification_id = n /\ attempts[i].success})

\* process p takes this step
Steps(p) == pc'[p] # pc[p]

\* every provider call of p's current round failed, and the loop is over
AllFailed(p) ==
    /\ Len(invoked[p]) = Len(chans[p])
    /\ \A j \in 1..Len(invoked[p]) : ~invoked[p][j].ok

\* ---------------------------------------------------------------- C1
\* C1: while a worker processes a retry record whose attempt equals
\* max_retry_attempts and all channels of its list have failed again, no
\* step of that processing appends an entry to the retry stream.
C1_RetryCap ==
    [][\A w \in Workers :
          (att[w] = max_retry_attempts /\ AllFailed(w) /\ Steps(w))
              => stream' = stream]_vars

\* ---------------------------------------------------------------- C2
\* C2: the number of delivery rounds run for a notification never exceeds
\* 1 + max_retry_attempts.
C2_BoundedRounds ==
    \A n \in NIds : rounds[n] <= 1 + max_retry_attempts

\* ---------------------------------------------------------------- C3
\* C3: once the committed status of a notification is sent, no step
\* commits another status for it.
C3_SentAbsorbing ==
    [][\A n \in NIds :
          (IsRow(n) /\ notifications[n].status = SENT)
              => notifications'[n].status = SENT]_vars

\* ---------------------------------------------------------------- C4
\* C4: in every committed state, channel_used is non-null exactly when the
\* status is sent.
C4_ChannelUsedIffSent ==
    \A n \in NIds :
        IsRow(n) =>
            (notifications[n].channel_used # NULL <=> notifications[n].status = SENT)

\* ---------------------------------------------------------------- C5
\* C5: a notification whose committed status is sent has channel_used among
\* the channels supplied at creation and exactly one success attempt, whose
\* channel is channel_used.
C5_SentHasOneSuccess ==
    \A n \in NIds :
        (IsRow(n) /\ notifications[n].status = SENT) =>
            /\ \E k \in 1..Len(SuppliedChannels(n)) :
                  notifications[n].channel_used = ChannelValue(SuppliedChannels(n)[k])
            /\ SuccessCount(n) = 1
            /\ \A i \in 1..Len(attempts) :
                  (attempts[i].notification_id = n /\ attempts[i].success)
                      => attempts[i].channel = notifications[n].channel_used

\* ---------------------------------------------------------------- C6
\* C6: the stream is an append-only log, so for one notification the
\* attempt numbers of its entries strictly increase in append order.
C6_AttemptMonotonic ==
    \A i, j \in 1..Len(stream) :
        (i < j /\ stream[i].payload.notification_id = stream[j].payload.notification_id)
            => stream[i].payload.attempt < stream[j].payload.attempt

\* ---------------------------------------------------------------- C7
\* the delivery round of p is over (for a worker: a round was run at all)
RoundOver(p) ==
    \/ pc[p] \in {"mark_failed", "enqueue", "requeue", "returned"}
    \/ pc[p] \in {"close", "ack"} /\ result[p] = "retried"

\* the rows this round inserted are rows 1..k of the expected cascade
RoundRows(p) ==
    LET k == Len(invoked[p])
    IN /\ Len(added[p]) = k
       /\ \A j \in 1..k :
             /\ added[p][j] \in 1..Len(attempts)
             /\ attempts[added[p][j]].notification_id = nid[p]
             /\ attempts[added[p][j]].channel = ChannelValue(chans[p][j])
             /\ attempts[added[p][j]].success = invoked[p][j].ok
             /\ j < k => added[p][j] < added[p][j + 1]

\* C7: in one delivery round providers are invoked in list order and only
\* up to the first success; when the round is over it has appended one
\* attempt per invocation, in that order, failures before a final success
\* on channel k (then the session holds status sent and channel_used = ck,
\* and the commit of the success wrote them), or n failures when no send
\* succeeded.
C7_DeliveryRound ==
    /\ [](\A p \in Procs :
            /\ Len(invoked[p]) <= Len(chans[p])
            /\ \A j \in 1..Len(invoked[p]) :
                  /\ invoked[p][j].channel = chans[p][j]
                  /\ j < Len(invoked[p]) => ~invoked[p][j].ok
            /\ RoundOver(p) =>
                  LET k == Len(invoked[p])
                  IN /\ k >= 1
                     /\ RoundRows(p)
                     /\ invoked[p][k].ok =>
                           mem[p] = [status |-> SENT,
                                     channel_used |-> ChannelValue(chans[p][k])]
                     /\ ~invoked[p][k].ok => k = Len(chans[p]))
    /\ [][\A p \in Procs :
            (pc[p] = "commit" /\ outcome[p] /\ Steps(p)) =>
                /\ notifications'[nid[p]] =
                      [status |-> SENT,
                       channel_used |-> ChannelValue(chans[p][idx[p]])]
                /\ RoundOver(p)']_vars

\* a round that fell back: first channel failed, second succeeded
C7_Witness ==
    \E p \in Procs :
        /\ RoundOver(p)
        /\ Len(invoked[p]) = 2
        /\ ~invoked[p][1].ok
        /\ invoked[p][2].ok
        /\ Len(added[p]) = 2

\* ---------------------------------------------------------------- C8
\* C8: at the step in which create_and_send returns after every channel
\* failed, the returned and the committed status are failed and the stream
\* holds exactly one entry for the notification: its id, attempt 1 and the
\* supplied channel list in the supplied order.
C8_InitialAllFail ==
    [][\A r \in Requests :
          (Steps(r) /\ pc'[r] = "returned" /\ AllFailed(r)) =>
              /\ mem'[r].status = FAILED
              /\ notifications'[nid[r]].status = FAILED
              /\ \E i \in 1..Len(stream') :
                    /\ \A j \in 1..Len(stream') :
                          stream'[j].payload.notification_id = StrOfUuid(nid[r])
                              => j = i
                    /\ stream'[i].payload.notification_id = StrOfUuid(nid[r])
                    /\ stream'[i].payload.attempt = 1
                    /\ Len(stream'[i].payload.channels) = Len(chans[r])
                    /\ \A k \in 1..Len(chans[r]) :
                          stream'[i].payload.channels[k] = ChannelValue(chans[r][k])
                    /\ stream = SubSeq(stream', 1, Len(stream') - 1)
                    /\ i = Len(stream')]_vars

\* create_and_send has returned after two different channels both failed
C8_Witness ==
    \E r \in Requests :
        /\ pc[r] = "returned"
        /\ AllFailed(r)
        /\ Len(chans[r]) = 2
        /\ chans[r][1] # chans[r][2]
        /\ Len(stream) >= 1

\* ---------------------------------------------------------------- C9
\* C9: a worker that loads a notification whose status is sent goes
\* straight to the acknowledgement: it invokes no provider, inserts no
\* attempt, appends no stream entry and writes no status or channel_used;
\* its next steps close the session and acknowledge the message and change
\* nothing else.
C9_AlreadySentSkipped ==
    [][\A w \in Workers :
          /\ (pc[w] = "load" /\ Steps(w) /\ nid[w] \in NIds
                 /\ notifications[nid[w]].status = SENT) =>
                /\ pc'[w] = "selectin"
                /\ mem'[w].status = SENT
                /\ UNCHANGED <<notifications, attempts, stream, pel>>
          /\ (pc[w] = "selectin" /\ Steps(w) /\ mem[w].status = SENT) =>
                /\ pc'[w] = "close"
                /\ result'[w] = "already_sent"
                /\ invoked'[w] = <<>>
                /\ added'[w] = <<>>
                /\ UNCHANGED <<notifications, attempts, stream, pel>>
          /\ (result[w] = "already_sent" /\ Steps(w)) =>
                /\ pc[w] \in {"close", "ack"}
                /\ msg[w] \in pel
                /\ pc[w] = "close" =>
                      /\ pc'[w] = "ack"
                      /\ UNCHANGED <<notifications, attempts, stream, pel>>
                /\ pc[w] = "ack" =>
                      /\ pel' = pel \ {msg[w]}
                      /\ pc'[w] = "idle"
                      /\ UNCHANGED <<notifications, attempts, stream>>]_vars

\* a worker found the notification already sent and is about to acknowledge
C9_Witness ==
    \E w \in Workers :
        /\ pc[w] = "ack"
        /\ result[w] = "already_sent"
        /\ notifications[nid[w]].status = SENT
        /\ msg[w] \in pel

\* --------------------------------------------------------------- C10
\* C10: with two workers processing entries for the same notification, the
\* notification never has more than one success attempt, and no worker
\* starts a provider send while the committed status is sent.
C10_DuplicatesHarmless ==
    [][/\ \A n \in NIds : SuccessCount(n)' <= 1
       /\ \A w \in Workers :
             (pc[w] = "send" /\ pc'[w] = "commit" /\ nid[w] \in NIds)
                 => notifications[nid[w]].status # SENT]_vars

\* --------------------------------------------------------------- C11
\* the worker is processing, for the second time in succession, the entry
\* it acknowledged last, and that processing has committed its last status
SecondProcessingOver(w) ==
    /\ snapshot.count = 1
    /\ msg[w] = snapshot.msg
    /\ pc[w] \in {"enqueue", "requeue", "close", "ack"}

\* C11: with the outcome of every provider fixed, when the second of two
\* successive processings of one retry entry is over, the committed status
\* and channel_used of the notification are those the first processing left.
C11_RetryIdempotent ==
    \A w \in SoloWorkers :
        SecondProcessingOver(w) => notifications[nid[w]] = snapshot.row

\* the first processing left the notification failed, the second re-ran
\* the cascade over two channels and is about to acknowledge
C11_Witness ==
    \E w \in SoloWorkers :
        /\ SecondProcessingOver(w)
        /\ pc[w] = "ack"
        /\ result[w] = "retried"
        /\ snapshot.row.status = FAILED
        /\ Len(invoked[w]) = 2

\* --------------------------------------------------------------- C12
\* C12: an entry whose processing raised (undecodable payload, store
\* failure, queue failure on xadd or xack) is in the pending entries of the
\* consumer group in every later state: the step that raised did not
\* acknowledge it and no later step of the worker removes it.
C12_RaisedStaysPending ==
    \A e \in raisedMsgs : e.msg \in pel

\* three entries raised, one for each cause, and the worker is back in its
\* loop
C12_Witness ==
    /\ {e.cause : e \in raisedMsgs} = {"decode", "store", "queue"}
    /\ \A w \in SoloWorkers : pc[w] = "idle"
    /\ Cardinality(pel) = 3

\* --------------------------------------------------------------- C13
\* C13: an entry whose processing raised a store failure is later handed
\* to a worker again.
C13_Redelivery ==
    \A m \in 1..MaxStream :
        ([msg |-> m, cause |-> "store"] \in raisedMsgs)
            ~> (\E w \in SoloWorkers : msg[w] = m)

\* --------------------------------------------------------------- C14
\* no entry for notification n is undelivered or unacknowledged
Drained(n) ==
    \A i \in 1..Len(stream) :
        stream[i].payload.notification_id = StrOfUuid(n)
            => (i <= lastDelivered /\ i \notin pel)

\* the entry for notification n that carries the last attempt number the
\* configuration allows has been processed and acknowledged
LastRetryAcked(n) ==
    \E m \in 1..lastDelivered :
        /\ stream[m].payload.notification_id = StrOfUuid(n)
        /\ stream[m].payload.attempt = max_retry_attempts
        /\ m \notin pel
        /\ \A w \in SoloWorkers : msg[w] # m

\* C14: with every provider permanently down the retries of a notification
\* end with the entry of attempt max_retry_attempts: in every state after
\* that entry has been processed and acknowledged, no entry for the
\* notification is undelivered or unacknowledged and its committed status
\* is failed.
C14_QueueDrains ==
    \A n \in NIds :
        (backend = AllDown /\ LastRetryAcked(n))
            => (Drained(n) /\ notifications[n].status = FAILED)

\* with every provider permanently down, from the first enqueue on there
\* is always an entry of the notification that is undelivered or pending
C14_NeverDrained ==
    \A r \in Requests :
        (backend = AllDown /\ pc[r] = "returned" /\ nid[r] \in NIds)
            => ~Drained(nid[r])

\* --------------------------------------------------------------- C15
\* C15: with a healthy store and queue no exception leaves the engine
\* whatever the providers do; every past provider call of a round has its
\* attempt row before the next provider is called, and the step after a
\* failed send appends exactly one attempt: a failure on that channel
\* carrying str(e), and then moves to the next channel of the list (or out
\* of the loop) without a provider call or a status write in between.
C15_ProviderFailureContained ==
    /\ [](\A p \in Procs :
            /\ pc[p] \notin {"raised", "unwind"}
            /\ pc[p] = "send" => Len(added[p]) = Len(invoked[p]))
    /\ [][\A p \in Procs :
            (pc[p] = "commit" /\ ~outcome[p] /\ Steps(p)) =>
                /\ attempts' = Append(attempts,
                      [notification_id |-> nid[p],
                       channel |-> ChannelValue(chans[p][idx[p]]),
                       success |-> FALSE,
                       error_message |-> ErrorCause])
                /\ pc'[p] = LoopPc(chans[p], idx[p] + 1)
                /\ idx'[p] = idx[p] + 1
                /\ UNCHANGED <<notifications, stream, invoked>>]_vars

\* a request returned and a worker finished its round, each after a
\* provider failure
C15_Witness ==
    /\ \E r \in Requests :
          pc[r] = "returned" /\ \E j \in 1..Len(invoked[r]) : ~invoked[r][j].ok
    /\ \E w \in Workers :
          /\ pc[w] = "ack"
          /\ result[w] = "retried"
          /\ \E j \in 1..Len(invoked[w]) : ~invoked[w][j].ok

\* --------------------------------------------------------------- C16
\* C16: when the commit of an attempt (success or failure attempt) fails,
\* the round ends there: that step writes nothing and takes the process out
\* of the loop with the exception (a request has raised, a worker unwinds
\* to its handler); from then on the process calls no provider and appends
\* no attempt, and no attempt row ever carries the store's error as if a
\* provider had failed.
C16_StoreFailureFatal ==
    /\ [](\A i \in 1..Len(attempts) :
            attempts[i].error_message # StoreErrorCause)
    /\ [][\A p \in SoloProcs :
            /\ (pc[p] = "commit" /\ faults'.store # faults.store /\ Steps(p)) =>
                  /\ pc'[p] = IF p \in Requests THEN "raised" ELSE "unwind"
                  /\ UNCHANGED <<notifications, attempts, stream, invoked>>
            /\ pc[p] = "raised" =>
                  /\ pc'[p] = "raised"
                  /\ invoked'[p] = invoked[p]
            /\ (pc[p] = "unwind" /\ Steps(p)) =>
                  /\ pc'[p] = "idle"
                  /\ msg[p] \in pel'
                  /\ UNCHANGED <<notifications, attempts, stream>>]_vars

\* the first provider of a list of two delivered, the commit of its success
\* attempt failed and create_and_send raised: the second provider was not
\* called and nothing was recorded
C16_Witness ==
    \E r \in Requests :
        /\ pc[r] = "raised"
        /\ Len(chans[r]) = 2
        /\ Len(invoked[r]) = 1
        /\ invoked[r][1].ok
        /\ attempts = <<>>
        /\ notifications[nid[r]].status = PENDING

\* --------------------------------------------------------------- C17
\* C17: when create_and_send leaves _enqueue_retry without an entry having
\* been appended (the xadd failed), it has returned normally, the returned
\* and the committed status are failed, and the stream holds no entry for
\* the notification.
C17_EnqueueFailureSwallowed ==
    [][\A r \in Requests :
          (pc[r] = "enqueue" /\ Steps(r) /\ stream' = stream) =>
              /\ pc'[r] = "returned"
              /\ mem'[r].status = FAILED
              /\ notifications'[nid[r]].status = FAILED
              /\ \A i \in 1..Len(stream') :
                    stream'[i].payload.notification_id # StrOfUuid(nid[r])]_vars

\* --------------------------------------------------------------- C19
\* the credentials a provider requires
RequiredCredentials(ch) ==
    CASE ch = "EMAIL" -> SmtpCredentials
      [] ch = "SMS" -> TwilioCredentials
      [] ch = "TELEGRAM" -> TelegramCredentials

MissingCredential(ch) == \E c \in RequiredCredentials(ch) : c \notin credentials

\* C19: a send on a registered provider that lacks at least one of its
\* required credentials returns normally whatever the network would do,
\* and the engine's next step records it as a success: a success attempt
\* without error on that channel, status sent, channel_used the channel.
C19_MockSuccess ==
    [][\A r \in Requests :
          /\ (/\ pc[r] = "send"
              /\ chans[r][idx[r]] \in registry
              /\ MissingCredential(chans[r][idx[r]])
              /\ Steps(r)) =>
                /\ pc'[r] = "commit"
                /\ outcome'[r]
                /\ invoked'[r] = Append(invoked[r],
                      [channel |-> chans[r][idx[r]], ok |-> TRUE])
          /\ (/\ pc[r] = "commit"
              /\ MissingCredential(chans[r][idx[r]])
              /\ Steps(r)) =>
                /\ attempts' = Append(attempts,
                      [notification_id |-> nid[r],
                       channel |-> ChannelValue(chans[r][idx[r]]),
                       success |-> TRUE,
                       error_message |-> NULL])
                /\ notifications'[nid[r]] =
                      [status |-> SENT,
                       channel_used |-> ChannelValue(chans[r][idx[r]])]
                /\ pc'[r] = "returned"]_vars

\* delivered by e-mail in mock mode: some but not all SMTP credentials are
\* set and the network is down
C19_Witness ==
    \E r \in Requests :
        /\ pc[r] = "returned"
        /\ mem[r] = [status |-> SENT, channel_used |-> "email"]
        /\ backend = AllDown
        /\ SmtpCredentials \cap credentials # {}
        /\ MissingCredential("EMAIL")

\* --------------------------------------------------------------- C20
\* the channel tags of a sequence of attempt rows
ChannelsOf(rows) == [k \in 1..Len(rows) |-> rows[k].channel]

\* the tags of the channel list supplied at creation
SuppliedTags(n) ==
    [k \in 1..Len(SuppliedChannels(n)) |-> ChannelValue(SuppliedChannels(n)[k])]

IsPrefix(s, t) == Len(s) <= Len(t) /\ \A k \in 1..Len(s) : s[k] = t[k]

\* C20 as claimed: the channels of all attempts of a notification, in
\* insertion order, are a prefix of the supplied channel list.
C20_AttemptsPrefix ==
    \A n \in NIds :
        IsRow(n) => IsPrefix(ChannelsOf(AttemptsOf(n)), SuppliedTags(n))

\* C20 as amended: the attempts one delivery round (initial or retry) has
\* inserted so far are attempts of its notification whose channels, in
\* insertion order, are a prefix of the supplied channel list, and every
\* attempt of a notification is on a channel of that list.
C20_RoundPrefix ==
    /\ \A p \in Procs :
          nid[p] \in NIds =>
              /\ \A j \in 1..Len(added[p]) :
                    /\ added[p][j] \in 1..Len(attempts)
                    /\ attempts[added[p][j]].notification_id = nid[p]
                    /\ j > 1 => added[p][j - 1] < added[p][j]
              /\ IsPrefix([j \in 1..Len(added[p]) |-> attempts[added[p][j]].channel],
                          SuppliedTags(nid[p]))
    /\ \A i \in 1..Len(attempts) :
          \E k \in 1..Len(SuppliedTags(attempts[i].notification_id)) :
              attempts[i].channel = SuppliedTags(attempts[i].notification_id)[k]

\* a retry round over two different channels has inserted its two attempts
\* after the two of the initial round
C20_Witness ==
    \E w \in Workers :
        /\ RoundOver(w)
        /\ result[w] = "retried"
        /\ Len(added[w]) = 2
        /\ chans[w][1] # chans[w][2]
        /\ Len(AttemptsOf(nid[w])) > Len(SuppliedTags(nid[w]))

\* --------------------------------------------------------------- C21
\* a success attempt on the channel `used` is among `rows`
HasSuccessOn(rows, used) ==
    \E k \in 1..Len(rows) : rows[k].success /\ rows[k].channel = used

\* C21: what a reader has read of a notification (the row, then its
\* attempts) never shows status sent without a success attempt whose
\* channel is channel_used, and neither does any committed state.
C21_ReadConsistency ==
    /\ (reader.pc = "done" /\ reader.row.status = SENT)
          => HasSuccessOn(reader.attempts, reader.row.channel_used)
    /\ \A n \in NIds :
          (IsRow(n) /\ notifications[n].status = SENT)
              => HasSuccessOn(AttemptsOf(n), notifications[n].channel_used)

\* a reader has read a sent notification that was delivered by the
\* fallback channel
C21_Witness ==
    /\ reader.pc = "done"
    /\ reader.row.status = SENT
    /\ Len(reader.attempts) >= 2
    /\ ~reader.attempts[1].success

\* --------------------------------------------------------------- C26
\* C26: a step of get_notification writes nothing: notifications, attempts
\* and the queue stay as they are.  Its first statement reads the row with
\* the requested id and returns not-found at once when there is none; its
\* second statement reads the attempts of that notification, all of them
\* and in insertion order, and leaves the row it read as it is.
C26_GetNotificationFrame ==
    [][(reader' # reader) =>
          /\ UNCHANGED <<notifications, attempts, stream, lastDelivered, pel>>
          /\ reader.pc = "idle" =>
                /\ reader'.row =
                      (IF \E n \in NIds : n = reader'.id /\ IsRow(n)
                       THEN notifications[reader'.id] ELSE NoRow)
                /\ reader'.attempts = <<>>
                /\ reader'.pc = (IF reader'.row = NoRow THEN "done" ELSE "selectin")
          /\ reader.pc = "selectin" =>
                /\ reader'.pc = "done"
                /\ reader'.row = reader.row
                /\ reader'.id = reader.id
                /\ reader'.attempts =
                      SelectSeq(attempts, LAMBDA a : a.notification_id = reader.id)]_vars

\* a reader got a failed notification with its two attempts while an entry
\* for it waits in the stream
C26_Witness ==
    /\ reader.pc = "done"
    /\ reader.row.status = FAILED
    /\ Len(reader.attempts) = 2
    /\ Len(stream) >= 1
    /\ lastDelivered = 0

\* --------------------------------------------------------------- C22
\* C22: in a retry round the worker appends nothing to the stream before
\* the round is over; the commit of a success writes status sent and
\* channel_used of the succeeding channel and takes the worker straight to
\* the acknowledgement without an append; the acknowledgement that follows
\* finds the notification sent, removes the message from the pending
\* entries and appends nothing.
C22_RetrySuccess ==
    [][\A w \in SoloWorkers :
          /\ (pc[w] \in {"sleep", "load", "selectin", "reset", "send", "commit",
                         "close"}
                 /\ Steps(w))
                => stream' = stream
          /\ (pc[w] = "commit" /\ outcome[w] /\ Steps(w)) =>
                /\ notifications'[nid[w]] =
                      [status |-> SENT,
                       channel_used |-> ChannelValue(chans[w][idx[w]])]
                /\ pc'[w] = "close"
          /\ (pc[w] = "ack" /\ result[w] = "retried" /\ mem[w].status = SENT
                 /\ Steps(w)) =>
                /\ notifications[nid[w]] = mem[w]
                /\ msg[w] \in pel
                /\ pel' = pel \ {msg[w]}
                /\ UNCHANGED <<notifications, attempts, stream>>]_vars

\* a retry round over two channels succeeded on the second and the worker
\* is about to acknowledge
C22_Witness ==
    \E w \in SoloWorkers :
        /\ pc[w] = "ack"
        /\ result[w] = "retried"
        /\ Len(invoked[w]) = 2
        /\ invoked[w][2].ok
        /\ notifications[nid[w]] =
              [status |-> SENT, channel_used |-> ChannelValue(chans[w][2])]
        /\ msg[w] \in pel

\* --------------------------------------------------------------- C23
\* C23: while a worker processes a retry record with attempt a <
\* max_retry_attempts and every channel has failed again, each step of that
\* processing that appends to the stream appends the record for the same
\* notification with attempt a + 1 and the same channel list, and nothing
\* else.
C23_OneFollowUp ==
    [][\A w \in Workers :
          (/\ att[w] >= 1
           /\ att[w] < max_retry_attempts
           /\ AllFailed(w)
           /\ Steps(w)
           /\ stream' # stream) =>
              stream' = Append(stream,
                               RetryPayload(nid[w], chans[w], att[w] + 1))]_vars

\* --------------------------------------------------------------- C27
\* C27: decoding an encoded retry payload gives back the id (the string
\* that names it), the channels in their order and the attempt, for every
\* id, channel list and attempt number; and the entry a process appends
\* decodes to the id, the channel list and the attempt number it encoded.
C27_PayloadRoundTrip ==
    /\ [](\A id \in NIds, channels \in ChannelLists,
             attempt \in 1..(MaxRetrySetting + 1) :
            LET entry == RetryPayload(id, channels, attempt)
            IN /\ Decodable(entry)
               /\ DecodePayload(entry) =
                     [notification_id |-> StrOfUuid(id),
                      channels |-> channels,
                      attempt |-> attempt]
               /\ UuidOfStr(DecodePayload(entry).notification_id) = id)
    /\ [][\A p \in SoloProcs :
            (Steps(p) /\ stream' # stream) =>
                LET entry == stream'[Len(stream')]
                IN /\ Decodable(entry)
                   /\ UuidOfStr(DecodePayload(entry).notification_id) = nid[p]
                   /\ DecodePayload(entry).channels = chans[p]
                   /\ DecodePayload(entry).attempt =
                         (IF pc[p] = "requeue" THEN att[p] + 1 ELSE 1)]_vars

\* a worker has decoded a follow-up entry (attempt 2) that carries two
\* different channels
C27_Witness ==
    \E w \in SoloWorkers :
        /\ pc[w] = "load"
        /\ att[w] = 2
        /\ Len(chans[w]) = 2
        /\ chans[w][1] # chans[w][2]
        /\ nid[w] \in NIds

\* --------------------------------------------------------------- C30
\* C30: a worker appends to the stream only while the message it is
\* processing is still pending, the step that acknowledges appends
\* nothing, and a worker that is about to acknowledge after a round that
\* calls for a follow-up finds that follow-up (attempt + 1, same id and
\* channels) already in the stream, after its own message.
C30_EnqueueBeforeAck ==
    /\ [](\A w \in SoloWorkers :
            (/\ pc[w] = "ack"
             /\ result[w] = "retried"
             /\ mem[w].status = FAILED
             /\ att[w] < max_retry_attempts) =>
                /\ msg[w] \in pel
                /\ \E i \in (msg[w] + 1)..Len(stream) :
                      stream[i] = RetryPayload(nid[w], chans[w], att[w] + 1))
    /\ [][\A w \in SoloWorkers :
            /\ (Steps(w) /\ stream' # stream)
                  => (msg[w] \in pel /\ msg[w] \in pel')
            /\ (msg[w] \in pel /\ msg[w] \notin pel')
                  => stream' = stream]_vars

\* the follow-up with attempt 2 is in the stream and its original is still
\* pending, about to be acknowledged
C30_Witness ==
    \E w \in SoloWorkers :
        /\ pc[w] = "ack"
        /\ att[w] = 1
        /\ msg[w] \in pel
        /\ stream[Len(stream)] = RetryPayload(nid[w], chans[w], 2)

\* --------------------------------------------------------------- C25
\* C25: the first step of create_and_send commits the pending row and
\* invokes no provider; every provider call of the request is for the list
\* entry the loop stands at, which lies beyond the number of calls made so
\* far, and the loop never steps back, so no entry is sent twice and only
\* one round is run; when create_and_send has returned, the returned
\* status is sent or failed.
C25_SynchronousSingleRound ==
    /\ [](\A r \in Requests :
            /\ Len(invoked[r]) >= 1 => (nid[r] \in NIds /\ IsRow(nid[r]))
            /\ Len(invoked[r]) <= Len(chans[r])
            /\ nid[r] \in NIds =>
                  rounds[nid[r]] = IF pc[r] = "refresh" THEN 0 ELSE 1
            /\ pc[r] = "returned" => mem[r].status \in {SENT, FAILED})
    /\ [][\A r \in Requests :
            /\ (pc[r] = "new" /\ Steps(r)) =>
                  /\ notifications'[nid'[r]] =
                        [status |-> PENDING, channel_used |-> NULL]
                  /\ mem'[r].status = PENDING
                  /\ invoked'[r] = <<>>
                  /\ attempts' = attempts
            /\ idx'[r] >= idx[r]
            /\ invoked'[r] # invoked[r] =>
                  /\ Len(invoked[r]) < idx[r]
                  /\ Len(invoked'[r]) = Len(invoked[r]) + 1
                  /\ invoked'[r][Len(invoked'[r])].channel = chans[r][idx[r]]
                  /\ notifications[nid[r]].status = PENDING]_vars

\* create_and_send returned failed for a list of two channels after it
\* had called the provider of each
C25_Witness ==
    \E r \in Requests :
        /\ pc[r] = "returned"
        /\ mem[r].status = FAILED
        /\ Len(chans[r]) = 2
        /\ Len(invoked[r]) = 2

\* --------------------------------------------------------------- C24
\* C24: a worker that loads a notification id under which the store holds
\* no row goes straight to the acknowledgement: it invokes no provider,
\* inserts no notification and no attempt and appends no stream entry; its
\* next steps close the session and acknowledge the message and change
\* nothing else.
C24_UnknownDropped ==
    [][\A w \in SoloWorkers :
          /\ (pc[w] = "load" /\ Steps(w)
                 /\ ~\E n \in NIds : n = nid[w] /\ IsRow(n)) =>
                /\ pc'[w] = "close"
                /\ result'[w] = "not_found"
                /\ invoked'[w] = <<>>
                /\ added'[w] = <<>>
                /\ UNCHANGED <<notifications, attempts, stream, pel>>
          /\ (result[w] = "not_found" /\ Steps(w)) =>
                /\ pc[w] \in {"close", "ack"}
                /\ msg[w] \in pel
                /\ pc[w] = "close" =>
                      /\ pc'[w] = "ack"
                      /\ UNCHANGED <<notifications, attempts, stream, pel>>
                /\ pc[w] = "ack" =>
                      /\ pel' = pel \ {msg[w]}
                      /\ pc'[w] = "idle"
                      /\ UNCHANGED <<notifications, attempts, stream>>]_vars

\* the store holds a failed notification and the worker found none under
\* the id of its entry; it is about to acknowledge
C24_Witness ==
    \E w \in SoloWorkers :
        /\ pc[w] = "ack"
        /\ result[w] = "not_found"
        /\ nid[w] = UnknownId
        /\ msg[w] \in pel
        /\ \E n \in NIds : IsRow(n) /\ notifications[n].status = FAILED

\* --------------------------------------------------------------- C29
\* C29: whenever an entry with attempt a >= 1 is delivered to a worker,
\* the worker sleeps base^(a-1) before it loads the notification; that
\* delay is not negative, is 1 for a = 1 and is not smaller than the delay
\* for attempt a - 1.
C29_BackoffDelay ==
    [][\A w \in SoloWorkers :
          (pc[w] = "idle" /\ lastDelivered' # lastDelivered) =>
              LET a == stream[lastDelivered'].payload.attempt
              IN /\ pc'[w] = "sleep"
                 /\ delay'[w] = BackoffDelay(retry_backoff_base, a)
                 /\ FloatLeq(FloatZero, delay'[w])
                 /\ a = 1 => delay'[w] = FloatOne
                 /\ a > 1 => FloatLeq(BackoffDelay(retry_backoff_base, a - 1),
                                      delay'[w])]_vars

\* whenever the power is within the float range the worker sleeps it, and
\* it is not negative, 1 for attempt 1 and non-decreasing in the attempt
C29_DelayInRange ==
    /\ \A a \in 1..MaxInjectedAttempt :
          LET d == BackoffDelay(retry_backoff_base, a)
          IN IsFloat(d) =>
                /\ FloatLeq(FloatZero, d)
                /\ a = 1 => d = FloatOne
                /\ a > 1 => FloatLeq(BackoffDelay(retry_backoff_base, a - 1), d)
    /\ \A w \in SoloWorkers :
          pc[w] \in {"sleep", "load"} =>
              /\ delay[w] = BackoffDelay(retry_backoff_base, att[w])
              /\ IsFloat(delay[w])

\* --------------------------------------------------------------- C28
\* C28: once the shutdown event is set, the worker goes on with the message
\* it is processing up to its acknowledgement; every step that ends a loop
\* iteration with the event set leaves the loop instead of issuing another
\* read; a worker that has left the loop reads nothing any more; and the
\* worker eventually has closed the queue client.
C28_CooperativeShutdown ==
    /\ [][\A w \in SoloWorkers :
            /\ (shutdown /\ Steps(w) /\ pc[w] = "ack") =>
                  (pc'[w] = "closing" /\ pel' = pel \ {msg[w]})
            /\ (shutdown /\ Steps(w)) => pc'[w] # "idle"
            /\ pc[w] \in {"closing", "stopped"} =>
                  /\ pc'[w] \in {"closing", "stopped"}
                  /\ lastDelivered' = lastDelivered
                  /\ pc[w] = "stopped" => pc'[w] = "stopped"]_vars
    /\ \A w \in SoloWorkers : shutdown ~> (pc[w] = "stopped")

\* the worker has stopped after the event was set while it was processing:
\* it acknowledged that message and left the follow-up entries unread
C28_Witness ==
    \E w \in SoloWorkers :
        /\ shutdown
        /\ pc[w] = "stopped"
        /\ lastDelivered = 1
        /\ pel = {}
        /\ Len(stream) = 3

\* --------------------------------------------------------------- C33
\* C33: every step of create_and_send, of the retry processing and of
\* get_notification leaves the attempts table a prefix of what it is after
\* the step, so the attempts of each notification before the step are a
\* prefix of its attempts after it, and no step removes a notification.
C33_AppendOnly ==
    [][/\ IsPrefix(attempts, attempts')
       /\ \A n \in NIds :
             /\ IsPrefix(AttemptsOf(n), AttemptsOf(n)')
             /\ IsRow(n) => IsRow(n)']_vars

\* a reader is at work on a notification that an initial round and a
\* retry round have given three attempts or more
C33_Witness ==
    /\ reader.pc = "selectin"
    /\ \E w \in SoloWorkers :
          /\ result[w] = "retried"
          /\ Len(added[w]) >= 1
          /\ Len(AttemptsOf(nid[w])) >= 3

\* --------------------------------------------------------------- C34
\* C34: in every committed state each attempt row has an error message
\* exactly when its success flag is false.
C34_ErrorIffFailure ==
    \A i \in 1..Len(attempts) :
        attempts[i].error_message # NULL <=> ~attempts[i].success

\* the table holds a success and a failure of a provider, in a run where a
\* statement of the store has failed
C34_Witness ==
    /\ \E i \in 1..Len(attempts) : attempts[i].success
    /\ \E i \in 1..Len(attempts) : attempts[i].error_message = ErrorCause
    /\ faults.store = 0

\* --------------------------------------------------------------- C35
\* C35: every entry of the stream, all of them appended by the service,
\* has an attempt number in 1..max_retry_attempts and the id of a
\* notification that is in the store.
C35_RecordsWellFormed ==
    \A i \in 1..Len(stream) :
        /\ stream[i].payload.attempt \in 1..max_retry_attempts
        /\ \E n \in NIds :
              /\ stream[i].payload.notification_id = StrOfUuid(n)
              /\ IsRow(n)

\* the stream holds the initial entry and the follow-up whose attempt
\* number is the cap
C35_Witness ==
    /\ max_retry_attempts = 2
    /\ \E i \in 1..Len(stream) : stream[i].payload.attempt = 1
    /\ \E i \in 1..Len(stream) :
          stream[i].payload.attempt = max_retry_attempts

\* --------------------------------------------------------------- C37
\* C37: the step in which a worker is handed an entry it cannot decode (a
\* key of the payload is missing, or a channel tag is unknown) changes no
\* notification and no attempt, invokes no provider and appends nothing;
\* it leaves the entry among the pending ones and the worker in its loop,
\* ready to read the next entry; the entry stays pending ever after.
C37_UndecodableIgnored ==
    /\ [][\A w \in SoloWorkers :
            (/\ pc[w] = "idle"
             /\ lastDelivered' # lastDelivered
             /\ ~Decodable(stream[lastDelivered'])) =>
                /\ UNCHANGED <<notifications, attempts, stream, invoked, mem>>
                /\ lastDelivered' = lastDelivered + 1
                /\ pel' = pel \cup {lastDelivered'}
                /\ pc'[w] = "idle"]_vars
    /\ [](\A m \in 1..lastDelivered : ~Decodable(stream[m]) => m \in pel)

\* an entry without the attempt key was skipped and stays pending; the
\* worker has read the entry behind it
C37_Witness ==
    \E w \in SoloWorkers, m \in 1..Len(stream) :
        /\ "attempt" \notin DOMAIN stream[m].payload
        /\ m \in pel
        /\ pc[w] = "load"
        /\ msg[w] > m

\* --------------------------------------------------------------- C36
\* entry m was delivered to a worker and acknowledged
Acked(m) == m <= lastDelivered /\ m \notin pel

\* a worker stands at an xadd that the cap on the explored stream length
\* does not let through
AtStreamCap ==
    /\ Len(stream) = MaxStream
    /\ \E w \in SoloWorkers : pc[w] \in {"enqueue", "requeue"}

\* C36: with a healthy store and queue, entries of the service only and a
\* fairly scheduled worker that is not shut down, every entry of the
\* stream is eventually delivered and acknowledged (in the explored runs:
\* unless the worker has come to stand at the cap of the stream length).
C36_EveryRecordAcked ==
    \A m \in 1..MaxStream :
        (m <= Len(stream)) ~> (Acked(m) \/ AtStreamCap)

\* the stream is full and each of its entries was delivered and
\* acknowledged
C36_Witness ==
    /\ Len(stream) = MaxStream
    /\ \A m \in 1..Len(stream) : Acked(m)
    /\ \A w \in SoloWorkers : pc[w] = "idle"

\* --------------------------------------------------------------- C31
\* C31: a failure of the queue while the worker reads from the stream does
\* not stop the worker.  The failed read delivers nothing and changes
\* neither the store nor the stream nor the consumer group; the worker
\* backs off, the backoff ends, and the worker is then at its read again
\* unless the shutdown event is set, in which case it closes; a worker
\* never closes while the event is not set.
C31_ReadFailureBacksOff ==
    /\ [][\A w \in SoloWorkers :
            /\ (pc[w] = "idle" /\ faults' # faults) =>
                  /\ pc'[w] = "backoff"
                  /\ UNCHANGED <<store, queue, locals, shutdown>>
            /\ (pc[w] = "backoff" /\ pc'[w] # "backoff") =>
                  /\ pc'[w] = IF shutdown THEN "closing" ELSE "idle"
                  /\ UNCHANGED <<store, queue, locals>>
            /\ (pc[w] # pc'[w] /\ pc'[w] \in {"closing", "stopped"}) =>
                  shutdown]_vars
    /\ \A w \in SoloWorkers :
          (pc[w] = "backoff") ~> (pc[w] \in {"idle", "closing"})

\* after a read that failed the worker, not shut down, has read an entry
\* and is processing it
C31_Witness ==
    /\ faults.queue < MaxFaults
    /\ ~shutdown
    /\ \E w \in SoloWorkers :
        /\ pc[w] = "load"
        /\ msg[w] = lastDelivered
        /\ lastDelivered >= 1

\* --------------------------------------------------------------- C32
\* C32: the creation of the consumer group is idempotent across workers.
\* A create call that the server answers, with `created` or with `group
\* already exists`, takes the worker to its consume loop, leaves the group
\* existing and does not touch what the group has delivered or holds
\* pending; this holds for whichever worker calls first.  A create call
\* that fails otherwise stops that worker, which stays stopped and never
\* reads an entry.  Entries are only read from an existing group.
C32_GroupCreateIdempotent ==
    /\ [][\A w \in Workers :
            /\ (pc[w] = "start" /\ pc'[w] # "start" /\ faults' = faults) =>
                  /\ pc'[w] = "idle"
                  /\ group'
                  /\ UNCHANGED <<store, queue, locals>>
            /\ (pc[w] = "start" /\ pc'[w] # "start" /\ faults' # faults) =>
                  /\ pc'[w] = "crashed"
                  /\ UNCHANGED <<store, queue, locals, group>>
            /\ pc[w] = "crashed" => pc'[w] = "crashed"
            /\ group => group'
            /\ lastDelivered' # lastDelivered => group]_vars
    /\ [](\A w \in Workers :
            /\ pc[w] \in {"start", "crashed"} => msg[w] = 0 /\ nid[w] = 0
            /\ pc[w] \notin {"start", "crashed"} => group)

\* both workers have made their create call, in either order, and are in
\* the loop: one is processing an entry it read, the other one has read and
\* acknowledged before or waits at its read
C32_Witness ==
    /\ group
    /\ faults.queue = MaxFaults
    /\ \A w \in Workers : pc[w] \notin {"start", "crashed"}
    /\ \E w \in Workers : pc[w] = "load" /\ msg[w] >= 1

\* one worker was stopped by a create error, the other one is in the loop
\* and processes an entry
C32_WitnessCrashed ==
    /\ \E w \in Workers : pc[w] = "crashed"
    /\ \E w \in Workers : pc[w] = "load" /\ msg[w] >= 1

====
